---- MODULE Spec2Model ----
(***************************************************************************)
(* Dual-bank bootloader (crispy-bootloader): the update protocol state     *)
(* machine (update/commands.rs, update/storage.rs), the flash gateway and   *)
(* BootData store (flash.rs) and the cooperative service loop (main.rs,     *)
(* services/*.rs).                                                          *)
(*                                                                          *)
(* Scaling.  TLC integers are 32-bit signed, so a u32 of the program is a   *)
(* model word of 8 bits (0 .. WordMod-1), the CRC-32 of the crc crate is    *)
(* the same reflected, all-ones-init, all-ones-xorout algorithm at 8 bits,  *)
(* and the memory map is scaled down (a page is 2 cells, a sector 4, a      *)
(* bank 8).  An erased flash cell reads ERASED (all ones).                  *)
(***************************************************************************)
EXTENDS Naturals, Sequences, FiniteSets, TLC

\* ------------------------------------------------------------------------
\* Words and the memory map
\* ------------------------------------------------------------------------
WordMod == 2 ^ 8
ERASED == WordMod - 1

FLASH_BASE == 16
FLASH_PAGE_SIZE == 2
FLASH_SECTOR_SIZE == 4
FLASH_PROGRAM_BATCH_SIZE == FLASH_SECTOR_SIZE
FW_BANK_SIZE == 8
FW_A_ADDR == 20
FW_B_ADDR == 28
BOOT_DATA_ADDR == 36
BOOT_DATA_MAGIC == 122
RAM_START == 64
RAM_END == 68
\* __fw_copy_size of the link script: the size of the RAM staging region.
FW_COPY_SIZE == 3
MAX_DATA_BLOCK_SIZE == 2
QUEUE_DEPTH == 8
BUS_CAPACITY == 32

\* Flash offsets of the bootloader and the two banks (the BootData sector
\* is the variable bootsector).
FlashCells == 0 .. (FW_B_ADDR + FW_BANK_SIZE - FLASH_BASE - 1)
RamCells == 0 .. (FW_COPY_SIZE - 1)

fw_ram_buffer_size == FW_COPY_SIZE

addr_to_offset(abs_addr) == abs_addr - FLASH_BASE

Min(a, b) == IF a < b THEN a ELSE b

div_ceil(a, b) == (a + b - 1) \div b

\* ------------------------------------------------------------------------
\* CRC (crc crate, CRC_32_ISO_HDLC, at the model's word width)
\* ------------------------------------------------------------------------
CRC_POLY == 237

RECURSIVE Xor(_, _)
Xor(a, b) ==
    IF a = 0 THEN b
    ELSE IF b = 0 THEN a
    ELSE ((a + b) % 2) + 2 * Xor(a \div 2, b \div 2)

CrcShift(c) == IF c % 2 = 1 THEN Xor(c \div 2, CRC_POLY) ELSE c \div 2

CrcByte(c, byte) ==
    CrcShift(CrcShift(CrcShift(CrcShift(
        CrcShift(CrcShift(CrcShift(CrcShift(Xor(c, byte)))))))))

RECURSIVE CrcUpdate(_, _)
CrcUpdate(c, bytes) ==
    IF bytes = << >> THEN c
    ELSE CrcUpdate(CrcByte(c, Head(bytes)), Tail(bytes))

Crc(bytes) == Xor(CrcUpdate(ERASED, bytes), ERASED)

\* The cells [from, from+len) of a memory, as a byte sequence.
Slice(mem, from, len) == [i \in 1 .. len |-> mem[from + i - 1]]

\* ------------------------------------------------------------------------
\* BootData (crispy_common::protocol) and the BootData sector
\* ------------------------------------------------------------------------
BootData(magic, active_bank, confirmed, boot_attempts, version_a, version_b, crc_a, crc_b, size_a, size_b) ==
    [magic |-> magic, active_bank |-> active_bank, confirmed |-> confirmed,
     boot_attempts |-> boot_attempts, version_a |-> version_a,
     version_b |-> version_b, crc_a |-> crc_a, crc_b |-> crc_b,
     size_a |-> size_a, size_b |-> size_b]

default_new == BootData(BOOT_DATA_MAGIC, 0, 0, 0, 0, 0, 0, 0, 0, 0)

\* What an erased metadata sector reads as: every field all ones.
ErasedSector ==
    BootData(ERASED, ERASED, ERASED, ERASED, ERASED, ERASED, ERASED, ERASED,
             ERASED, ERASED)

is_valid(bd) == bd.magic = BOOT_DATA_MAGIC

\* BootData::as_bytes: the record as the cells of its memory image, one cell
\* per field, in declaration order, the padding cell after boot_attempts.
as_bytes(bd) ==
    << bd.magic, bd.active_bank, bd.confirmed, bd.boot_attempts, 0,
       bd.version_a, bd.version_b, bd.crc_a, bd.crc_b, bd.size_a, bd.size_b >>

\* BootData::read_from: the record whose memory image the cells are.
read_from(cells) ==
    BootData(cells[1], cells[2], cells[3], cells[4], cells[6], cells[7],
             cells[8], cells[9], cells[10], cells[11])

\* The metadata page in cells: a flash page holds more than a record.
BOOT_PAGE_CELLS == 12

\* Programming NOR flash clears bits: the cell becomes old AND data.
RECURSIVE And(_, _)
And(a, b) ==
    IF a = 0 \/ b = 0 THEN 0
    ELSE ((a % 2) * (b % 2)) + 2 * And(a \div 2, b \div 2)

\* ------------------------------------------------------------------------
\* Flash gateway (flash.rs).  hw = [flash, bootsector, ops]; ops logs the
\* erase and program calls in the order they are issued.
\* ------------------------------------------------------------------------
BootSectorOffset == addr_to_offset(BOOT_DATA_ADDR)

Overlaps(off, len, off2, len2) == off < off2 + len2 /\ off2 < off + len

FlashOp(op, off, len) == [op |-> op, off |-> off, len |-> len]

flash_erase(hw, offset, size) ==
    [flash |-> [i \in FlashCells |->
                  IF offset <= i /\ i < offset + size THEN ERASED
                  ELSE hw.flash[i]],
     bootsector |->
         IF Overlaps(offset, size, BootSectorOffset, FLASH_SECTOR_SIZE)
         THEN ErasedSector ELSE hw.bootsector,
     ops |-> Append(hw.ops, FlashOp("erase", offset, size))]

\* flash_program of `data` (a byte sequence) into bank or bootloader cells:
\* each cell becomes old AND data, the data itself when the cell is erased.
\* `taken` is FALSE when the ROM routine fails silently and the cells keep
\* their content.
flash_program(hw, offset, data, taken) ==
    [flash |-> [i \in FlashCells |->
                  IF taken /\ offset <= i /\ i < offset + Len(data)
                  THEN And(hw.flash[i], data[i - offset + 1])
                  ELSE hw.flash[i]],
     bootsector |-> hw.bootsector,
     ops |-> Append(hw.ops, FlashOp("program", offset, Len(data)))]

\* The 0xFF-filled page write_boot_data builds around the record's bytes.
BootPage(bd) ==
    [i \in 1 .. BOOT_PAGE_CELLS |->
        IF i <= Len(as_bytes(bd)) THEN as_bytes(bd)[i] ELSE ERASED]

\* flash_program of the padded BootData page into the metadata sector, whose
\* cells hold the memory image of hw.bootsector.
flash_program_boot_page(hw, bd) ==
    [flash |-> hw.flash,
     bootsector |->
         read_from([i \in 1 .. Len(as_bytes(bd)) |->
                       And(as_bytes(hw.bootsector)[i], BootPage(bd)[i])]),
     ops |-> Append(hw.ops,
                    FlashOp("program", BootSectorOffset, FLASH_PAGE_SIZE))]

compute_crc32(hw, abs_addr, size) ==
    Crc(Slice(hw.flash, addr_to_offset(abs_addr), size))

read_boot_data(hw) ==
    IF is_valid(hw.bootsector) THEN hw.bootsector ELSE default_new

\* write_boot_data programming the page without erasing the sector.
write_boot_data_no_erase(hw, bd) == flash_program_boot_page(hw, bd)

write_boot_data(hw, bd) ==
    flash_program_boot_page(
        flash_erase(hw, BootSectorOffset, FLASH_SECTOR_SIZE), bd)

\* ------------------------------------------------------------------------
\* RAM staging buffer and persist (update/storage.rs)
\* ------------------------------------------------------------------------
compute_ram_crc32(ram, size) == Crc(Slice(ram, 0, size))

copy_to_ram_buffer(ram, offset, data) ==
    [i \in RamCells |->
        IF offset <= i /\ i < offset + Len(data) THEN data[i - offset + 1]
        ELSE ram[i]]

\* The while loop of persist_ram_to_flash: full pages in batches.  `fault`
\* makes the first program call fail silently.
RECURSIVE ProgramBatches(_, _, _, _, _, _)
ProgramBatches(hw, ram, flash_offset, full_page_bytes, offset, fault) ==
    IF offset < full_page_bytes
    THEN LET chunk == Min(full_page_bytes - offset, FLASH_PROGRAM_BATCH_SIZE)
         IN  ProgramBatches(
                 flash_program(hw, flash_offset + offset,
                               Slice(ram, offset, chunk),
                               ~(fault /\ offset = 0)),
                 ram, flash_offset, full_page_bytes, offset + chunk, fault)
    ELSE hw

\* The last page taken whole from RAM.
LastPage_from_ram(ram, full_page_bytes, trailing_bytes) ==
    [i \in 1 .. FLASH_PAGE_SIZE |-> ram[full_page_bytes + i - 1]]

\* The 0xFF-padded last page.
LastPage(ram, full_page_bytes, trailing_bytes) ==
    [i \in 1 .. FLASH_PAGE_SIZE |->
        IF i <= trailing_bytes THEN ram[full_page_bytes + i - 1] ELSE ERASED]

\* persist_ram_to_flash erasing one sector more than the bank has.
persist_ram_to_flash_erasing_past_bank(hw, ram, bank_addr, size, fault) ==
    LET flash_offset == addr_to_offset(bank_addr)
        erase_size == FW_BANK_SIZE + FLASH_SECTOR_SIZE
        erased == flash_erase(hw, flash_offset, erase_size)
        full_page_bytes == (size \div FLASH_PAGE_SIZE) * FLASH_PAGE_SIZE
        paged == ProgramBatches(erased, ram, flash_offset, full_page_bytes,
                                0, fault)
        trailing_bytes == size - full_page_bytes
    IN  IF trailing_bytes > 0
        THEN flash_program(paged, flash_offset + full_page_bytes,
                           LastPage(ram, full_page_bytes, trailing_bytes),
                           ~(fault /\ full_page_bytes = 0))
        ELSE paged

persist_ram_to_flash(hw, ram, bank_addr, size, fault) ==
    LET flash_offset == addr_to_offset(bank_addr)
        erase_size == div_ceil(size, FLASH_SECTOR_SIZE) * FLASH_SECTOR_SIZE
        erased == flash_erase(hw, flash_offset, erase_size)
        full_page_bytes == (size \div FLASH_PAGE_SIZE) * FLASH_PAGE_SIZE
        paged == ProgramBatches(erased, ram, flash_offset, full_page_bytes,
                                0, fault)
        trailing_bytes == size - full_page_bytes
    IN  IF trailing_bytes > 0
        THEN flash_program(paged, flash_offset + full_page_bytes,
                           LastPage(ram, full_page_bytes, trailing_bytes),
                           ~(fault /\ full_page_bytes = 0))
        ELSE paged

\* ------------------------------------------------------------------------
\* UpdateState (update/state.rs), Command, Response
\* ------------------------------------------------------------------------
Standby == [tag |-> "Standby"]
InitializingUsb == [tag |-> "InitializingUsb"]
Ready == [tag |-> "Ready"]
ReceivingData(bank, bank_addr, expected_size, expected_crc, version, bytes_received) ==
    [tag |-> "ReceivingData", bank |-> bank, bank_addr |-> bank_addr,
     expected_size |-> expected_size, expected_crc |-> expected_crc,
     version |-> version, bytes_received |-> bytes_received]

Ack(status) == [tag |-> "Ack", status |-> status]

\* as_boot_state reporting UpdateMode for every state.
as_boot_state_update_mode(state) == "UpdateMode"

as_boot_state(state) ==
    IF state.tag = "ReceivingData" THEN "Receiving" ELSE "UpdateMode"

\* Option<T>.
None == [some |-> FALSE]
Some(v) == [some |-> TRUE, val |-> v]

bank_addr(bank) ==
    CASE bank = 0 -> Some(FW_A_ADDR)
      [] bank = 1 -> Some(FW_B_ADDR)
      [] OTHER -> None

bank_firmware_info(bd, bank) ==
    CASE bank = 0 -> Some([size |-> bd.size_a, crc |-> bd.crc_a])
      [] bank = 1 -> Some([size |-> bd.size_b, crc |-> bd.crc_b])
      [] OTHER -> None

\* What a handler leaves behind: the returned state, the staging RAM, the
\* flash (hw), the responses passed to transport.send in order, and whether
\* the MCU was reset.
Outcome(state, ram, hw, resp, reset) ==
    [state |-> state, ram |-> ram, hw |-> hw, resp |-> resp, reset |-> reset]

reject_with(status, state, ram, hw) ==
    Outcome(state, ram, hw, << Ack(status) >>, FALSE)

\* ------------------------------------------------------------------------
\* Handlers (update/commands.rs)
\* ------------------------------------------------------------------------
handle_get_status(state, ram, hw) ==
    LET bd == read_boot_data(hw)
    IN  Outcome(state, ram, hw,
                << [tag |-> "Status", active_bank |-> bd.active_bank,
                    version_a |-> bd.version_a, version_b |-> bd.version_b,
                    state |-> as_boot_state(state)] >>,
                FALSE)

\* handle_start_update erasing the target bank at once, as its doc comment
\* ("validate parameters, erase bank, begin receiving") describes.
handle_start_update_erasing(state, ram, hw, bank, size, crc32, version) ==
    IF state # Ready
    THEN reject_with("BadState", state, ram, hw)
    ELSE IF bank_addr(bank) = None
    THEN reject_with("BankInvalid", state, ram, hw)
    ELSE IF size = 0 \/ size > fw_ram_buffer_size \/ size > FW_BANK_SIZE
    THEN reject_with("BankInvalid", state, ram, hw)
    ELSE Outcome(ReceivingData(bank, bank_addr(bank).val, size, crc32, version,
                               0),
                 ram,
                 flash_erase(hw, addr_to_offset(bank_addr(bank).val),
                     div_ceil(size, FLASH_SECTOR_SIZE) * FLASH_SECTOR_SIZE),
                 << Ack("Ok") >>, FALSE)

\* handle_start_update validating the bank before the state.
handle_start_update_bank_first(state, ram, hw, bank, size, crc32, version) ==
    IF bank_addr(bank) = None
    THEN reject_with("BankInvalid", state, ram, hw)
    ELSE IF state # Ready
    THEN reject_with("BadState", state, ram, hw)
    ELSE IF size = 0 \/ size > fw_ram_buffer_size \/ size > FW_BANK_SIZE
    THEN reject_with("BankInvalid", state, ram, hw)
    ELSE Outcome(ReceivingData(bank, bank_addr(bank).val, size, crc32, version,
                               0),
                 ram, hw, << Ack("Ok") >>, FALSE)

\* handle_start_update accepted during an upload, starting a new session.
handle_start_update_restarting(state, ram, hw, bank, size, crc32, version) ==
    IF state.tag \notin {"Ready", "ReceivingData"}
    THEN reject_with("BadState", state, ram, hw)
    ELSE IF bank_addr(bank) = None
    THEN reject_with("BankInvalid", state, ram, hw)
    ELSE IF size = 0 \/ size > fw_ram_buffer_size \/ size > FW_BANK_SIZE
    THEN reject_with("BankInvalid", state, ram, hw)
    ELSE Outcome(ReceivingData(bank, bank_addr(bank).val, size, crc32, version,
                               0),
                 ram, hw, << Ack("Ok") >>, FALSE)

handle_start_update(state, ram, hw, bank, size, crc32, version) ==
    IF state # Ready
    THEN reject_with("BadState", state, ram, hw)
    ELSE IF bank_addr(bank) = None
    THEN reject_with("BankInvalid", state, ram, hw)
    ELSE IF size = 0 \/ size > fw_ram_buffer_size
    THEN reject_with("BankInvalid", state, ram, hw)
    ELSE IF size > FW_BANK_SIZE
    THEN reject_with("BankInvalid", state, ram, hw)
    ELSE Outcome(ReceivingData(bank, bank_addr(bank).val, size, crc32, version,
                               0),
                 ram, hw, << Ack("Ok") >>, FALSE)

\* The accepting arm of handle_data_block.
data_block_accept(state, ram, hw, data) ==
    Outcome([state EXCEPT !.bytes_received =
                              (state.bytes_received + Len(data)) % WordMod],
            copy_to_ram_buffer(ram, state.bytes_received, data),
            hw, << Ack("Ok") >>, FALSE)

\* handle_data_block without the sequential-offset check.
handle_data_block_any_offset(state, ram, hw, offset, data) ==
    IF state.tag # "ReceivingData"
    THEN reject_with("BadState", state, ram, hw)
    ELSE IF (state.bytes_received + Len(data)) % WordMod > state.expected_size
    THEN reject_with("BadCommand", state, ram, hw)
    ELSE data_block_accept(state, ram, hw, data)

\* handle_data_block without the size check.
handle_data_block_any_size(state, ram, hw, offset, data) ==
    IF state.tag # "ReceivingData"
    THEN reject_with("BadState", state, ram, hw)
    ELSE IF offset # state.bytes_received
    THEN reject_with("BadCommand", state, ram, hw)
    ELSE data_block_accept(state, ram, hw, data)

handle_data_block(state, ram, hw, offset, data) ==
    IF state.tag # "ReceivingData"
    THEN reject_with("BadState", state, ram, hw)
    ELSE IF offset # state.bytes_received
    THEN reject_with("BadCommand", state, ram, hw)
    ELSE IF (state.bytes_received + Len(data)) % WordMod > state.expected_size
    THEN reject_with("BadCommand", state, ram, hw)
    ELSE data_block_accept(state, ram, hw, data)

\* CommittedBootData with the bank test inverted.
CommittedBootData_other_bank(bd, bank, version, expected_crc, expected_size) ==
    LET sel == [bd EXCEPT !.active_bank = bank, !.confirmed = 0,
                          !.boot_attempts = 0]
    IN  IF bank # 0
        THEN [sel EXCEPT !.version_a = version, !.crc_a = expected_crc,
                         !.size_a = expected_size]
        ELSE [sel EXCEPT !.version_b = version, !.crc_b = expected_crc,
                         !.size_b = expected_size]

\* The BootData record FinishUpdate commits.
CommittedBootData(bd, bank, version, expected_crc, expected_size) ==
    LET sel == [bd EXCEPT !.active_bank = bank, !.confirmed = 0,
                          !.boot_attempts = 0]
    IN  IF bank = 0
        THEN [sel EXCEPT !.version_a = version, !.crc_a = expected_crc,
                         !.size_a = expected_size]
        ELSE [sel EXCEPT !.version_b = version, !.crc_b = expected_crc,
                         !.size_b = expected_size]

\* handle_finish_update from the persist on: program, re-verify, commit.
finish_persist_and_commit(state, ram, hw, fault) ==
    LET persisted == persist_ram_to_flash(hw, ram, state.bank_addr,
                                          state.expected_size, fault)
    IN  IF compute_crc32(persisted, state.bank_addr, state.expected_size)
               # state.expected_crc
        THEN Outcome(Ready, ram, persisted, << Ack("CrcError") >>, FALSE)
        ELSE Outcome(Ready, ram,
                     write_boot_data(persisted,
                         CommittedBootData(read_boot_data(persisted),
                             state.bank, state.version,
                             state.expected_crc, state.expected_size)),
                     << Ack("Ok") >>, FALSE)

\* handle_finish_update writing BootData before the flash re-verification.
handle_finish_update_commit_first(state, ram, hw, fault) ==
    IF state.tag # "ReceivingData"
    THEN reject_with("BadState", state, ram, hw)
    ELSE IF state.bytes_received # state.expected_size
    THEN Outcome(state, ram, hw, << Ack("BadCommand") >>, FALSE)
    ELSE IF compute_ram_crc32(ram, state.expected_size) # state.expected_crc
    THEN Outcome(Ready, ram, hw, << Ack("CrcError") >>, FALSE)
    ELSE LET persisted == persist_ram_to_flash(hw, ram, state.bank_addr,
                                               state.expected_size, fault)
             committed ==
                 write_boot_data(persisted,
                     CommittedBootData(read_boot_data(persisted),
                         state.bank, state.version,
                         state.expected_crc, state.expected_size))
         IN  IF compute_crc32(persisted, state.bank_addr, state.expected_size)
                    # state.expected_crc
             THEN Outcome(Ready, ram, committed, << Ack("CrcError") >>, FALSE)
             ELSE Outcome(Ready, ram, committed, << Ack("Ok") >>, FALSE)

\* handle_finish_update dropping the session when data is incomplete.
handle_finish_update_abort_incomplete(state, ram, hw, fault) ==
    IF state.tag # "ReceivingData"
    THEN reject_with("BadState", state, ram, hw)
    ELSE IF state.bytes_received # state.expected_size
    THEN Outcome(Ready, ram, hw, << Ack("BadCommand") >>, FALSE)
    ELSE IF compute_ram_crc32(ram, state.expected_size) # state.expected_crc
    THEN Outcome(Ready, ram, hw, << Ack("CrcError") >>, FALSE)
    ELSE finish_persist_and_commit(state, ram, hw, fault)

handle_finish_update(state, ram, hw, fault) ==
    IF state.tag # "ReceivingData"
    THEN reject_with("BadState", state, ram, hw)
    ELSE IF state.bytes_received # state.expected_size
    THEN Outcome(ReceivingData(state.bank, state.bank_addr,
                               state.expected_size, state.expected_crc,
                               state.version, state.bytes_received),
                 ram, hw, << Ack("BadCommand") >>, FALSE)
    ELSE IF compute_ram_crc32(ram, state.expected_size) # state.expected_crc
    THEN Outcome(Ready, ram, hw, << Ack("CrcError") >>, FALSE)
    ELSE finish_persist_and_commit(state, ram, hw, fault)

\* sys_reset: the handler returns no state.
\* handle_reboot resetting without the acknowledgement.
handle_reboot_silent(state, ram, hw) ==
    Outcome(state, ram, hw, << >>, TRUE)

\* handle_reboot acknowledging and returning the state it was given.
handle_reboot_returning(state, ram, hw) ==
    Outcome(state, ram, hw, << Ack("Ok") >>, FALSE)

handle_reboot(state, ram, hw) ==
    Outcome(state, ram, hw, << Ack("Ok") >>, TRUE)

\* handle_set_active_bank building the record from the default one.
handle_set_active_bank_from_default(state, ram, hw, bank) ==
    IF state # Ready
    THEN reject_with("BadState", state, ram, hw)
    ELSE IF bank_addr(bank) = None
    THEN reject_with("BankInvalid", state, ram, hw)
    ELSE LET info == bank_firmware_info(read_boot_data(hw), bank)
         IN  IF info.val.size = 0
             THEN reject_with("BankInvalid", state, ram, hw)
             ELSE IF compute_crc32(hw, bank_addr(bank).val, info.val.size)
                         # info.val.crc
             THEN reject_with("CrcError", state, ram, hw)
             ELSE Outcome(state, ram,
                          write_boot_data(hw,
                              [default_new EXCEPT !.active_bank = bank]),
                          << Ack("Ok") >>, FALSE)

\* handle_set_active_bank without the CRC recomputation.
handle_set_active_bank_no_crc(state, ram, hw, bank) ==
    IF state # Ready
    THEN reject_with("BadState", state, ram, hw)
    ELSE IF bank_addr(bank) = None
    THEN reject_with("BankInvalid", state, ram, hw)
    ELSE LET bd == read_boot_data(hw)
         IN  IF bank_firmware_info(bd, bank).val.size = 0
             THEN reject_with("BankInvalid", state, ram, hw)
             ELSE Outcome(state, ram,
                          write_boot_data(hw,
                              [bd EXCEPT !.active_bank = bank,
                                         !.confirmed = 0,
                                         !.boot_attempts = 0]),
                          << Ack("Ok") >>, FALSE)

handle_set_active_bank(state, ram, hw, bank) ==
    IF state # Ready
    THEN reject_with("BadState", state, ram, hw)
    ELSE IF bank_addr(bank) = None
    THEN reject_with("BankInvalid", state, ram, hw)
    ELSE LET bd == read_boot_data(hw)
             info == bank_firmware_info(bd, bank)
         IN  IF info = None
             THEN reject_with("BankInvalid", state, ram, hw)
             ELSE IF info.val.size = 0
             THEN reject_with("BankInvalid", state, ram, hw)
             ELSE IF compute_crc32(hw, bank_addr(bank).val, info.val.size)
                         # info.val.crc
             THEN reject_with("CrcError", state, ram, hw)
             ELSE Outcome(state, ram,
                          write_boot_data(hw,
                              [bd EXCEPT !.active_bank = bank,
                                         !.confirmed = 0,
                                         !.boot_attempts = 0]),
                          << Ack("Ok") >>, FALSE)

\* handle_wipe_all without the state check.
handle_wipe_all_any_state(state, ram, hw) ==
    Outcome(state, ram, write_boot_data(hw, default_new), << Ack("Ok") >>,
            FALSE)

\* handle_wipe_all erasing the metadata sector without writing a record.
handle_wipe_all_erase_only(state, ram, hw) ==
    IF state # Ready
    THEN reject_with("BadState", state, ram, hw)
    ELSE Outcome(state, ram,
                 flash_erase(hw, BootSectorOffset, FLASH_SECTOR_SIZE),
                 << Ack("Ok") >>, FALSE)

\* handle_wipe_all erasing both banks before it resets the record.
handle_wipe_all_erasing_banks(state, ram, hw) ==
    IF state # Ready
    THEN reject_with("BadState", state, ram, hw)
    ELSE Outcome(state, ram,
                 write_boot_data(
                     flash_erase(hw, addr_to_offset(FW_A_ADDR),
                                 2 * FW_BANK_SIZE),
                     default_new),
                 << Ack("Ok") >>, FALSE)

handle_wipe_all(state, ram, hw) ==
    IF state # Ready
    THEN reject_with("BadState", state, ram, hw)
    ELSE Outcome(state, ram, write_boot_data(hw, default_new),
                 << Ack("Ok") >>, FALSE)

dispatch_command(state, ram, hw, cmd, fault) ==
    CASE cmd.tag = "GetStatus" -> handle_get_status(state, ram, hw)
      [] cmd.tag = "StartUpdate" ->
             handle_start_update(state, ram, hw, cmd.bank, cmd.size,
                                 cmd.crc32, cmd.version)
      [] cmd.tag = "DataBlock" ->
             handle_data_block(state, ram, hw, cmd.offset, cmd.data)
      [] cmd.tag = "FinishUpdate" -> handle_finish_update(state, ram, hw, fault)
      [] cmd.tag = "Reboot" -> handle_reboot(state, ram, hw)
      [] cmd.tag = "SetActiveBank" ->
             handle_set_active_bank(state, ram, hw, cmd.bank)
      [] cmd.tag = "WipeAll" -> handle_wipe_all(state, ram, hw)

\* ------------------------------------------------------------------------
\* Host inputs
\* ------------------------------------------------------------------------
MaxBankArg == 2
MaxSizeArg == 4
MaxOffsetArg == 3

\* The image the host uploads (one full page and a one-byte tail); its
\* first two words lie in [RAM_START, RAM_END).
HostImage == << 65, 65, 0 >>

HostVersion == 7

\* The chunks of the image, and chunks with a flipped byte.
DataArgs == { << >>, << 65 >>, << 65, 65 >>, << 0 >> }

Commands ==
    { [tag |-> "GetStatus"], [tag |-> "FinishUpdate"], [tag |-> "Reboot"],
      [tag |-> "WipeAll"] }
    \cup { [tag |-> "StartUpdate", bank |-> b, size |-> Len(HostImage),
            crc32 |-> Crc(HostImage), version |-> HostVersion] :
              b \in 0 .. MaxBankArg }
    \cup { [tag |-> "StartUpdate", bank |-> 0, size |-> n,
            crc32 |-> Crc(HostImage), version |-> HostVersion] :
              n \in {0, MaxSizeArg} }
    \cup { [tag |-> "DataBlock", offset |-> o, data |-> d] :
              o \in 0 .. MaxOffsetArg, d \in DataArgs }
    \cup { [tag |-> "SetActiveBank", bank |-> b] : b \in 0 .. MaxBankArg }

\* ------------------------------------------------------------------------
\* State
\* ------------------------------------------------------------------------
VARIABLES
    state,        \* UpdateService.state
    ram,          \* the RAM staging buffer at __fw_ram_base
    flash,        \* flash cells of the bootloader and the two banks
    bootsector,   \* the metadata sector at BOOT_DATA_ADDR
    events,       \* EventBus.events
    queue,        \* COMMAND_QUEUE
    checked,      \* TriggerCheckService.checked
    usb,          \* peripherals.usb is Some
    transport,    \* USB_TRANSPORT is Some
    pc,           \* the main loop's position
    booted,       \* the bank load_and_jump was called for
    lastCmd,      \* the command dispatched in this loop iteration
    resp,         \* the responses passed to transport.send in this iteration
    ops,          \* the erase/program calls issued in this iteration
    call,         \* the last call made on a unit examined on its own
    tx,           \* UsbTransport::write_all: the frame, the loop, the endpoint
    rx,           \* UsbTransport: the receive side and the host's byte stream
    cpu           \* PRIMASK, XIP, VTOR, MSP and what the core executes
\* lastCmd, resp and ops record what the current loop iteration did; the
\* end of the iteration (MainBootCheck) clears them.

\* The bootloader as a whole leaves these alone; each is the state of one
\* unit examined in a specification of its own.
unitVars == << call, tx, rx, cpu >>

\* The state of the bootloader as a whole.
loopVars == << state, ram, flash, bootsector, events, queue, checked, usb,
               transport, pc, booted, lastCmd, resp, ops >>

vars == << state, ram, flash, bootsector, events, queue, checked, usb,
           transport, pc, booted, lastCmd, resp, ops, call, tx, rx, cpu >>

Hw == [flash |-> flash, bootsector |-> bootsector, ops |-> << >>]

\* ------------------------------------------------------------------------
\* Event bus (crispy-common/src/service.rs)
\* ------------------------------------------------------------------------
\* publish making room by dropping the oldest event of a full bus.
publish_evicting(bus, event) ==
    IF Len(bus) < BUS_CAPACITY THEN Append(bus, event)
    ELSE Append(Tail(bus), event)

publish(bus, event) ==
    IF Len(bus) < BUS_CAPACITY THEN Append(bus, event) ELSE bus

\* A filter is given by the set of events it matches: {"RequestUpdate"} is
\* |e| matches!(e, Event::RequestUpdate), Events is |_| true.
Events == {"RequestUpdate", "RequestBoot"}

consume(bus, filter) == SelectSeq(bus, LAMBDA e : e \notin filter)

has_event(bus, filter) == \E i \in 1 .. Len(bus) : bus[i] \in filter

\* ------------------------------------------------------------------------
\* Command queue (services/usb.rs)
\* ------------------------------------------------------------------------
\* push_command enqueueing the command twice.
push_command_twice(q, cmd) ==
    IF Len(q) < QUEUE_DEPTH - 1 THEN Append(Append(q, cmd), cmd) ELSE q

\* A heapless spsc queue of depth N holds N - 1 items.
push_command(q, cmd) ==
    IF Len(q) < QUEUE_DEPTH - 1 THEN Append(q, cmd) ELSE q

\* ------------------------------------------------------------------------
\* Boot engine (boot.rs)
\* ------------------------------------------------------------------------
\* is_in_ram taking RAM_END for a RAM address.
is_in_ram_inclusive(addr) == RAM_START <= addr /\ addr <= RAM_END

is_in_ram(addr) == RAM_START <= addr /\ addr < RAM_END

\* validate_bank accepting any vector table.
validate_bank_unchecked(fl, flash_addr) ==
    Some(<< fl[addr_to_offset(flash_addr)],
            fl[addr_to_offset(flash_addr) + 1] >>)

\* The vector table is the first two words of the bank.
validate_bank(fl, flash_addr) ==
    LET initial_sp == fl[addr_to_offset(flash_addr)]
        reset_vector == fl[addr_to_offset(flash_addr) + 1]
    IN  IF is_in_ram(initial_sp) /\ is_in_ram(reset_vector)
        THEN Some(<< initial_sp, reset_vector >>)
        ELSE None

\* boot::read_boot_data: the preferred bank, the byte after the magic word
\* of the record at __boot_data_addr, when the magic is there.
preferred_bank(sector) ==
    IF as_bytes(sector)[1] = BOOT_DATA_MAGIC
    THEN Some(as_bytes(sector)[2])
    ELSE None

\* The order in which the banks are tried: the preferred bank and then the
\* other one, bank A and then bank B when there is no preferred bank.
boot_order(sector) ==
    IF preferred_bank(sector) = Some(1) THEN << 1, 0 >> ELSE << 0, 1 >>

\* run_normal_boot: the first bank of the order that validates is loaded
\* (Some(bank), load_and_jump does not return); None when neither does.
run_normal_boot(fl, sector) ==
    LET order == boot_order(sector)
    IN  IF validate_bank(fl, bank_addr(order[1]).val) # None
        THEN Some(order[1])
        ELSE IF validate_bank(fl, bank_addr(order[2]).val) # None
        THEN Some(order[2])
        ELSE None

\* ------------------------------------------------------------------------
\* Init: power-on of a fresh device (banks and metadata sector erased), or
\* of a device whose bank A holds an image that its firmware has confirmed.
\* ------------------------------------------------------------------------
NoCmd == [tag |-> "None"]

FreshFlash ==
    [i \in FlashCells |-> IF i < addr_to_offset(FW_A_ADDR) THEN 0 ELSE ERASED]

UsedFlash ==
    [i \in FlashCells |->
        IF addr_to_offset(FW_A_ADDR) <= i
           /\ i < addr_to_offset(FW_A_ADDR) + Len(HostImage)
        THEN HostImage[i - addr_to_offset(FW_A_ADDR) + 1]
        ELSE FreshFlash[i]]

UsedBootData ==
    BootData(BOOT_DATA_MAGIC, 0, 1, 1, HostVersion, 0, Crc(HostImage), 0,
             Len(HostImage), 0)

Init ==
    /\ state = Standby
    /\ ram = [i \in RamCells |-> 0]
    /\ \/ flash = FreshFlash /\ bootsector = ErasedSector
       \/ flash = UsedFlash /\ bootsector = UsedBootData
    /\ events = << >>
    /\ queue = << >>
    /\ checked = FALSE
    /\ usb = TRUE
    /\ transport = FALSE
    /\ pc = "usb"
    /\ booted = None
    /\ lastCmd = NoCmd
    /\ resp = << >>
    /\ ops = << >>
    /\ call = None /\ tx = None /\ rx = None /\ cpu = None

\* ------------------------------------------------------------------------
\* Services, in the order main polls them
\* ------------------------------------------------------------------------
\* UsbTransportService::process.  try_receive yields a command the host
\* sent, or nothing.
UsbTransportTick ==
    /\ UNCHANGED unitVars
    /\ pc = "usb"
    /\ pc' = "trigger"
    /\ IF transport
       THEN \/ queue' = queue
            \/ \E cmd \in Commands : queue' = push_command(queue, cmd)
       ELSE queue' = queue
    /\ UNCHANGED << state, ram, flash, bootsector, events, checked, usb,
                    transport, booted, lastCmd, resp, ops >>

\* gp2.is_low().unwrap_or(false); read is what the pin read returns.
Gp2Reads == {"low", "high", "error"}

gp2_is_low(read) == IF read = "error" THEN FALSE ELSE read = "low"

\* boot::check_update_trigger: the pin is low, or another trigger condition
\* of the board is met.
check_update_trigger(gp2_low, other) == gp2_low \/ other

\* The event TriggerCheckService publishes.
trigger_event(read, other) ==
    IF check_update_trigger(gp2_is_low(read), other)
    THEN "RequestUpdate" ELSE "RequestBoot"

\* TriggerCheckService::process publishing at every tick.
TriggerCheckTick_every_tick ==
    /\ UNCHANGED unitVars
    /\ pc = "trigger"
    /\ pc' = "update"
    /\ checked' = TRUE
    /\ \E read \in Gp2Reads, other \in BOOLEAN :
         events' = publish(events, trigger_event(read, other))
    /\ UNCHANGED << state, ram, flash, bootsector, queue, usb, transport,
                    booted, lastCmd, resp, ops >>

\* TriggerCheckService::process.
TriggerCheckTick ==
    /\ UNCHANGED unitVars
    /\ pc = "trigger"
    /\ pc' = "update"
    /\ IF checked
       THEN UNCHANGED << checked, events >>
       ELSE /\ checked' = TRUE
            /\ \E read \in Gp2Reads, other \in BOOLEAN :
                 events' = publish(events, trigger_event(read, other))
    /\ UNCHANGED << state, ram, flash, bootsector, queue, usb, transport,
                    booted, lastCmd, resp, ops >>

\* detect_event that never sees an update request.
detect_event_blind(bus, st) == "Tick"

\* UpdateService (services/update.rs): detect_event, transition.
detect_event(bus, st) ==
    IF st = Standby /\ has_event(bus, {"RequestUpdate"})
    THEN "UpdateRequested" ELSE "Tick"

FsmStep(next_state, action) == [next_state |-> next_state, action |-> action]

\* transition entering Ready straight from Standby.
transition_skip_init(st, event) ==
    CASE st = Standby /\ event = "UpdateRequested" -> FsmStep(Ready, "None")
      [] st = Standby /\ event = "Tick" -> FsmStep(Standby, "None")
      [] st = InitializingUsb -> FsmStep(InitializingUsb, "InitializeUsb")
      [] st.tag \in {"Ready", "ReceivingData"} ->
             FsmStep(st, "PumpCommandQueue")

transition(st, event) ==
    CASE st = Standby /\ event = "UpdateRequested" ->
             FsmStep(InitializingUsb, "None")
      [] st = Standby /\ event = "Tick" -> FsmStep(Standby, "None")
      [] st = InitializingUsb -> FsmStep(InitializingUsb, "InitializeUsb")
      [] st.tag \in {"Ready", "ReceivingData"} ->
             FsmStep(st, "PumpCommandQueue")

\* UpdateService::process when the step's action is FsmAction::None (the
\* service is in Standby); detect_event consumes the update requests.
UpdateStandbyTick ==
    /\ UNCHANGED unitVars
    /\ pc = "update"
    /\ transition(state, detect_event(events, state)).action = "None"
    /\ pc' = "led"
    /\ events' = (IF state = Standby
                  THEN consume(events, {"RequestUpdate"}) ELSE events)
    /\ state' = transition(state, detect_event(events, state)).next_state
    /\ UNCHANGED << ram, flash, bootsector, queue, checked, usb, transport,
                    booted, lastCmd, resp, ops >>

\* initialize_usb staying in InitializingUsb when it fails.
UpdateInitializeUsbTick_retrying ==
    /\ UNCHANGED unitVars
    /\ pc = "update"
    /\ transition(state, detect_event(events, state)).action = "InitializeUsb"
    /\ pc' = "led"
    /\ IF ~usb
       THEN /\ state' = InitializingUsb
            /\ UNCHANGED << usb, transport >>
       ELSE /\ usb' = FALSE
            /\ \E built \in BOOLEAN :
                 IF built
                 THEN transport' = TRUE /\ state' = Ready
                 ELSE transport' = transport /\ state' = InitializingUsb
    /\ UNCHANGED << ram, flash, bootsector, events, queue, checked, booted,
                    lastCmd, resp, ops >>

\* UpdateService::process when the action is InitializeUsb: initialize_usb.
\* `built` is the result of UsbTransport::new.
UpdateInitializeUsbTick ==
    /\ UNCHANGED unitVars
    /\ pc = "update"
    /\ transition(state, detect_event(events, state)).action = "InitializeUsb"
    /\ pc' = "led"
    /\ IF ~usb
       THEN /\ state' = Standby
            /\ UNCHANGED << usb, transport >>
       ELSE /\ usb' = FALSE
            /\ \E built \in BOOLEAN :
                 IF built
                 THEN transport' = TRUE /\ state' = Ready
                 ELSE transport' = transport /\ state' = Standby
    /\ UNCHANGED << ram, flash, bootsector, events, queue, checked, booted,
                    lastCmd, resp, ops >>

\* The power-on values of everything that lives in RAM or in registers.
SysReset ==
    /\ state' = Standby
    /\ events' = << >>
    /\ queue' = << >>
    /\ checked' = FALSE
    /\ usb' = TRUE
    /\ transport' = FALSE
    /\ pc' = "usb"

\* A handler that would return the state it was given when its response
\* could not be sent.
send_ack_checked(prior, out, sent) ==
    IF sent THEN out ELSE [out EXCEPT !.state = prior]

\* send_ack, and handle_get_status's send: `let _ = transport.send(..)`.
\* out is what the handler does and returns around the send, prior the
\* state it was given, sent the result of transport.send, which is dropped.
send_ack(prior, out, sent) == out

\* UpdateService::process when the action is PumpCommandQueue:
\* process_pending_command.  `fault` is a silent failure of the flash ROM,
\* `sent` the result of the handler's transport.send.
UpdatePumpTick ==
    /\ UNCHANGED unitVars
    /\ pc = "update"
    /\ transition(state, detect_event(events, state)).action
           = "PumpCommandQueue"
    /\ IF queue = << >> \/ ~transport
       THEN /\ pc' = "led"
            /\ queue' = (IF queue = << >> THEN queue ELSE Tail(queue))
            /\ UNCHANGED << state, ram, flash, bootsector, events, checked,
                            usb, transport, lastCmd, resp, ops >>
       ELSE \E fault \in BOOLEAN, sent \in BOOLEAN :
              LET out == send_ack(state,
                                  dispatch_command(state, ram, Hw,
                                                   Head(queue), fault),
                                  sent)
              IN  /\ lastCmd' = Head(queue)
                  /\ resp' = out.resp
                  /\ ops' = out.hw.ops
                  /\ ram' = out.ram
                  /\ flash' = out.hw.flash
                  /\ bootsector' = out.hw.bootsector
                  /\ IF out.reset
                     THEN SysReset
                     ELSE /\ state' = out.state
                          /\ queue' = Tail(queue)
                          /\ pc' = "led"
                          /\ UNCHANGED << events, checked, usb, transport >>
    /\ UNCHANGED booted

\* LedBlinkService::process (the LED is not part of the model's state).
LedBlinkTick ==
    /\ UNCHANGED unitVars
    /\ pc = "led"
    /\ pc' = "main"
    /\ UNCHANGED << state, ram, flash, bootsector, events, queue, checked,
                    usb, transport, booted, lastCmd, resp, ops >>

\* copy_firmware_to_ram: copy_size / 4 words from the bank at flash_addr to
\* ram_base, the buffer the update handlers stage into.
copy_firmware_to_ram(fl, flash_addr) ==
    [i \in RamCells |-> fl[addr_to_offset(flash_addr) + i]]

\* main: the boot request check after the services.  When a bank validates
\* the engine ends in load_and_jump, which copies the bank to RAM and does
\* not return.
MainBootCheck ==
    /\ UNCHANGED unitVars
    /\ pc = "main"
    /\ IF has_event(events, {"RequestBoot"})
       THEN LET bank == run_normal_boot(flash, bootsector)
            IN  IF bank # None
                THEN /\ pc' = "jumped"
                     /\ booted' = bank
                     /\ events' = consume(events, {"RequestBoot"})
                     /\ ram' = copy_firmware_to_ram(flash,
                                                    bank_addr(bank.val).val)
                ELSE /\ pc' = "usb"
                     /\ booted' = booted
                     /\ events' = publish(consume(events, {"RequestBoot"}),
                                          "RequestUpdate")
                     /\ ram' = ram
       ELSE /\ pc' = "usb"
            /\ UNCHANGED << booted, events, ram >>
    /\ lastCmd' = NoCmd
    /\ resp' = << >>
    /\ ops' = << >>
    /\ UNCHANGED << state, flash, bootsector, queue, checked, usb,
                    transport >>

Next ==
    \/ UsbTransportTick
    \/ TriggerCheckTick
    \/ UpdateStandbyTick
    \/ UpdateInitializeUsbTick
    \/ UpdatePumpTick
    \/ LedBlinkTick
    \/ MainBootCheck

Spec == Init /\ [][Next]_vars

\* The main loop never stops: whatever it is about to run (a service's
\* process or the boot request check) returns, and the loop goes on to the
\* next position, unless the firmware has been jumped to.  Every step of
\* Next moves pc, and some step of Next is possible at every position but
\* "jumped", so this is the weak fairness of Next.
LoopAdvances ==
    /\ pc # "jumped"
    /\ pc' \in {"usb", "trigger", "update", "led", "main", "jumped"} \ {pc}

FairSpec == Spec /\ WF_pc(LoopAdvances)

\* ------------------------------------------------------------------------
\* The event bus on its own (crispy-common/src/service.rs)
\* ------------------------------------------------------------------------
\* The bootloader as a whole at power-on, on a fresh device, while a unit
\* is examined on its own.
LoopAtRest ==
    /\ state = Standby
    /\ ram = [i \in RamCells |-> 0]
    /\ flash = FreshFlash /\ bootsector = ErasedSector
    /\ queue = << >>
    /\ checked = FALSE
    /\ usb = TRUE
    /\ transport = FALSE
    /\ pc = "usb"
    /\ booted = None
    /\ lastCmd = NoCmd
    /\ resp = << >>
    /\ ops = << >>

\* Buses to start from: up to MaxBusHead events of any kind, followed by a
\* run of alternating events that brings the bus to a small size or close
\* to its capacity.
MaxBusHead == 2
BusSlack == 2

Alternating(n) ==
    [i \in 1 .. n |-> IF i % 2 = 0 THEN "RequestUpdate" ELSE "RequestBoot"]

BusHeads ==
    UNION {[1 .. n -> Events] : n \in 0 .. MaxBusHead}

BusInputs ==
    {h \o Alternating(n) :
        h \in BusHeads,
        n \in {0} \cup ((BUS_CAPACITY - MaxBusHead - BusSlack)
                            .. (BUS_CAPACITY - MaxBusHead))}

BusInit ==
    /\ LoopAtRest
    /\ events \in BusInputs
    /\ call = None /\ tx = None /\ rx = None /\ cpu = None

\* EventBus::publish, called on small buses and on nearly full ones.
BusPublish ==
    /\ \/ Len(events) <= MaxBusHead
       \/ Len(events) >= BUS_CAPACITY - BusSlack
    /\ \E event \in Events :
         /\ events' = publish(events, event)
         /\ call' = [op |-> "publish", arg |-> event]
    /\ UNCHANGED << state, ram, flash, bootsector, queue, checked, usb,
                    transport, pc, booted, lastCmd, resp, ops, tx, rx, cpu >>

\* EventBus::consume.
BusConsume ==
    /\ \E filter \in SUBSET Events :
         /\ events' = consume(events, filter)
         /\ call' = [op |-> "consume", arg |-> filter]
    /\ UNCHANGED << state, ram, flash, bootsector, queue, checked, usb,
                    transport, pc, booted, lastCmd, resp, ops, tx, rx, cpu >>

\* EventBus::has_event.
BusHasEvent ==
    /\ \E filter \in SUBSET Events :
         call' = [op |-> "has_event", arg |-> filter,
                  result |-> has_event(events, filter)]
    /\ UNCHANGED << state, ram, flash, bootsector, events, queue, checked,
                    usb, transport, pc, booted, lastCmd, resp, ops, tx, rx,
                    cpu >>

BusNext ==
    \/ BusPublish
    \/ BusConsume
    \/ BusHasEvent

BusSpec == BusInit /\ [][BusNext]_vars

\* ------------------------------------------------------------------------
\* The USB transport on its own (usb_transport.rs)
\* ------------------------------------------------------------------------
\* Sizes, scaled: the accumulator holds 4 bytes (2048 in the source), one
\* read of the serial endpoint returns up to 3 (64), the drain stops at
\* three quarters of the accumulator.  MAX_POLLS is the source's.
RX_BUF_SIZE == 4
USB_READ_BUF_SIZE == 3
MAX_POLLS == 100
DRAIN_LIMIT == (RX_BUF_SIZE * 3) \div 4

\* postcard::from_bytes_cobs on the accumulated bytes of a frame: the frames
\* that decode, and the command each decodes to; every other frame is an
\* error.
from_bytes_cobs(frame) ==
    CASE frame = << 1 >> -> Some([tag |-> "GetStatus"])
      [] frame = << 2 >> -> Some([tag |-> "FinishUpdate"])
      [] frame = << 1, 2 >> -> Some([tag |-> "Reboot"])
      [] frame = << 2, 1 >> -> Some([tag |-> "WipeAll"])
      [] OTHER -> None

\* The receive side t of a transport: rx_buf is rx_buf[..rx_pos] and
\* pending_cmd the one-slot buffer.  Two fields keep a record for the
\* properties: since, the non-zero bytes processed since the last zero byte
\* was, and drained, the commands decoded by drain_rx_to_buffer.
TransportNew ==
    [rx_buf |-> << >>, pending_cmd |-> None, since |-> << >>,
     drained |-> << >>]

\* What a call returns together with the transport it leaves.
Received(t, cmd) == [t |-> t, cmd |-> cmd]

append_byte(t, byte) ==
    IF Len(t.rx_buf) < RX_BUF_SIZE
    THEN [t EXCEPT !.rx_buf = Append(@, byte), !.since = Append(@, byte)]
    ELSE [t EXCEPT !.rx_buf = << >>, !.since = Append(@, byte)]

\* try_decode_frame keeping the accumulated bytes of a frame that fails to
\* decode.
try_decode_frame_keeping(t) ==
    IF Len(t.rx_buf) = 0
    THEN Received([t EXCEPT !.since = << >>], None)
    ELSE IF from_bytes_cobs(t.rx_buf) = None
    THEN Received([t EXCEPT !.since = << >>], None)
    ELSE Received([t EXCEPT !.rx_buf = << >>, !.since = << >>],
                  from_bytes_cobs(t.rx_buf))

try_decode_frame(t) ==
    IF Len(t.rx_buf) = 0
    THEN Received([t EXCEPT !.since = << >>], None)
    ELSE Received([t EXCEPT !.rx_buf = << >>, !.since = << >>],
                  from_bytes_cobs(t.rx_buf))

process_byte(t, byte) ==
    IF byte = 0
    THEN try_decode_frame(t)
    ELSE Received(append_byte(t, byte), None)

\* The loop of try_receive over the bytes read: it returns at the first
\* command, and the bytes after it are not processed.
RECURSIVE process_bytes(_, _)
process_bytes(t, bytes) ==
    IF bytes = << >>
    THEN Received(t, None)
    ELSE LET r == process_byte(t, Head(bytes))
         IN  IF r.cmd # None THEN r ELSE process_bytes(r.t, Tail(bytes))

\* The bytes of tmp the loop of try_receive has not reached when it
\* returns: those after the delimiter of the frame whose command it
\* returns.  tmp is a local of try_receive.
RECURSIVE unprocessed(_, _)
unprocessed(t, bytes) ==
    IF bytes = << >>
    THEN << >>
    ELSE LET r == process_byte(t, Head(bytes))
         IN  IF r.cmd # None THEN Tail(bytes)
             ELSE unprocessed(r.t, Tail(bytes))

\* try_receive; bytes is what serial.read returns (nothing is read when a
\* command is pending).
try_receive(t, bytes) ==
    IF t.pending_cmd # None
    THEN Received([t EXCEPT !.pending_cmd = None], t.pending_cmd)
    ELSE process_bytes(t, bytes)

\* The loop of drain_rx_to_buffer over the bytes read.
RECURSIVE drain_bytes(_, _)
drain_bytes(t, bytes) ==
    IF bytes = << >> THEN t
    ELSE IF Len(t.rx_buf) >= DRAIN_LIMIT THEN t
    ELSE IF Head(bytes) = 0
    THEN LET r == try_decode_frame(t)
         IN  drain_bytes(
                 IF r.cmd # None
                 THEN [r.t EXCEPT !.pending_cmd = r.cmd,
                                  !.drained = Append(@, r.cmd.val)]
                 ELSE r.t,
                 Tail(bytes))
    ELSE drain_bytes(append_byte(t, Head(bytes)), Tail(bytes))

\* drain_rx_to_buffer reads only when the accumulator is not nearly full.
drain_reads(t) == ~(Len(t.rx_buf) > DRAIN_LIMIT)

drain_rx_to_buffer(t, bytes) ==
    IF drain_reads(t) THEN drain_bytes(t, bytes) ELSE t

\* The frames the host sends, each followed by the delimiter: the four
\* commands, a frame that does not decode, the empty frame and a frame
\* longer than the accumulator.
HostFrames ==
    { << 1 >>, << 2 >>, << 1, 2 >>, << 2, 1 >>, << 2, 2 >>, << >>,
      << 1, 1, 1, 1, 1, 2 >> }

MaxFramesOnWire == 2

RECURSIVE Wires(_)
Wires(n) ==
    IF n = 0 THEN { << >> }
    ELSE Wires(n - 1)
           \cup { w \o f \o << 0 >> : w \in Wires(n - 1), f \in HostFrames }

MaxFrameLen == 3

\* write_all is not running.
TxIdle == [status |-> "idle"]

\* UsbTransport::try_receive, called between two sends.  serial.read
\* returns some of the bytes the host has sent, up to the size of tmp.
TryReceive ==
    /\ tx.status # "writing"
    /\ \E n \in 0 .. (IF rx.t.pending_cmd # None THEN 0
                      ELSE Min(USB_READ_BUF_SIZE, Len(rx.wire))) :
         LET r == try_receive(rx.t, SubSeq(rx.wire, 1, n))
         IN  /\ rx' = [t |-> r.t,
                       wire |-> SubSeq(rx.wire, n + 1, Len(rx.wire)),
                       delivered |->
                           IF r.cmd = None THEN rx.delivered
                           ELSE Append(rx.delivered,
                                  [cmd |-> r.cmd.val,
                                   buffered |-> rx.t.pending_cmd # None])]
             /\ call' = [op |-> "try_receive", result |-> r.cmd,
                         read |-> SubSeq(rx.wire, 1, n),
                         rest |-> unprocessed(rx.t, SubSeq(rx.wire, 1, n))]
    /\ UNCHANGED << loopVars, tx, cpu >>

\* write_all is entered with a frame of len bytes: offset = 0,
\* poll_count = 0.  An empty frame is written at once.
WriteAllBegin ==
    /\ tx.status # "writing"
    /\ \E len \in 0 .. MaxFrameLen :
         tx' = IF len = 0
               THEN [status |-> "returned", len |-> 0, offset |-> 0,
                     poll_count |-> 0, result |-> TRUE, blocked |-> 0,
                     cause |-> "Ok"]
               ELSE [status |-> "writing", len |-> len, offset |-> 0,
                     poll_count |-> 0, result |-> FALSE, blocked |-> 0,
                     cause |-> "None"]
    /\ call' = [op |-> "write_all"]
    /\ UNCHANGED << loopVars, rx, cpu >>

\* One turn of the loop in which serial.write accepts n bytes, at least
\* one; the loop ends when the frame is written.
WriteOk ==
    /\ tx.status = "writing"
    /\ \E n \in 1 .. (tx.len - tx.offset) :
         tx' = [tx EXCEPT !.offset = @ + n,
                          !.poll_count = 0,
                          !.blocked = 0,
                          !.cause = "Ok",
                          !.result = (tx.offset + n >= tx.len),
                          !.status = IF tx.offset + n < tx.len
                                     THEN "writing" ELSE "returned"]
    /\ UNCHANGED << loopVars, call, rx, cpu >>

\* One turn of the loop in which serial.write returns WouldBlock: the loop
\* gives up, or polls the device and drains the receive side.
WriteWouldBlock ==
    /\ tx.status = "writing"
    /\ IF tx.poll_count + 1 > MAX_POLLS
       THEN /\ tx' = [tx EXCEPT !.poll_count = @ + 1,
                                !.blocked = @ + 1,
                                !.cause = "WouldBlock",
                                !.result = FALSE,
                                !.status = "returned"]
            /\ rx' = rx
       ELSE /\ tx' = [tx EXCEPT !.poll_count = @ + 1,
                                !.blocked = @ + 1,
                                !.cause = "WouldBlock"]
            /\ \E n \in 0 .. (IF drain_reads(rx.t)
                              THEN Min(USB_READ_BUF_SIZE, Len(rx.wire))
                              ELSE 0) :
                 rx' = [rx EXCEPT
                          !.t = drain_rx_to_buffer(rx.t,
                                    SubSeq(rx.wire, 1, n)),
                          !.wire = SubSeq(rx.wire, n + 1, Len(rx.wire))]
    /\ UNCHANGED << loopVars, call, cpu >>

\* One turn of the loop in which serial.write returns another error.
WriteError ==
    /\ tx.status = "writing"
    /\ tx' = [tx EXCEPT !.cause = "Error",
                        !.result = FALSE,
                        !.status = "returned"]
    /\ UNCHANGED << loopVars, call, rx, cpu >>

\* write_all against every behaviour of the endpoint, with the host silent
\* or sending one command meanwhile.
TxInit ==
    /\ LoopAtRest /\ events = << >>
    /\ call = None /\ cpu = None
    /\ tx = TxIdle
    /\ \E w \in { << >>, << 1, 0 >> } :
         rx = [t |-> TransportNew, wire |-> w, delivered |-> << >>]

TxNext ==
    \/ WriteAllBegin
    \/ WriteOk
    \/ WriteWouldBlock
    \/ WriteError

TxSpec == TxInit /\ [][TxNext]_vars

\* The receive side against every wire of up to MaxFramesOnWire frames,
\* with sends in between that block up to MaxBlocked times.
MaxBlocked == 2

RxInit ==
    /\ LoopAtRest /\ events = << >>
    /\ call = None /\ cpu = None
    /\ tx = TxIdle
    /\ \E w \in Wires(MaxFramesOnWire) :
         rx = [t |-> TransportNew, wire |-> w, delivered |-> << >>]

\* The endpoint blocks at most MaxBlocked times in a row.
WriteBlockedBriefly ==
    /\ tx.status = "writing"
    /\ tx.poll_count < MaxBlocked
    /\ WriteWouldBlock

RxNext ==
    \/ TryReceive
    \/ WriteAllBegin
    \/ WriteOk
    \/ WriteBlockedBriefly
    \/ WriteError

RxSpec == RxInit /\ [][RxNext]_vars

\* ------------------------------------------------------------------------
\* load_and_jump on its own (boot.rs)
\* ------------------------------------------------------------------------
\* __fw_ram_base of the link script.
FW_RAM_BASE == 64

\* load_and_jump moving the vector table before it disables interrupts.
load_and_jump_late_disable ==
    << "copy", "vtor", "cpsid", "dsb", "isb", "read_vt", "msr_msp", "bx" >>

\* What load_and_jump executes, in program order: copy_firmware_to_ram,
\* relocate_vector_table (interrupt::disable, the VTOR write, dsb, isb),
\* VectorTable::read_from(ram_base), jump_to_firmware (msr msp, bx).
load_and_jump ==
    << "copy", "cpsid", "vtor", "dsb", "isb", "read_vt", "msr_msp", "bx" >>

\* The core is about to execute op of load_and_jump.
JumpAt(op) ==
    /\ cpu.at = "bootloader"
    /\ cpu.ip <= Len(load_and_jump)
    /\ load_and_jump[cpu.ip] = op

\* The core has executed op.
JumpDone(op) ==
    [cpu EXCEPT !.ip = @ + 1, !.trace = Append(@, op)]

\* copy_firmware_to_ram: copy_size / 4 words from the bank to ram_base.
JumpCopy ==
    /\ JumpAt("copy")
    /\ ram' = copy_firmware_to_ram(flash, bank_addr(cpu.bank).val)
    /\ cpu' = JumpDone("copy")
    /\ UNCHANGED << state, flash, bootsector, events, queue, checked, usb,
                    transport, pc, booted, lastCmd, resp, ops, call, tx, rx >>

\* cortex_m::interrupt::disable.
JumpDisableInterrupts ==
    /\ JumpAt("cpsid")
    /\ cpu' = [JumpDone("cpsid") EXCEPT !.irq = FALSE]
    /\ UNCHANGED << loopVars, call, tx, rx >>

\* SCB_VTOR.write_volatile(ram_base).
JumpWriteVtor ==
    /\ JumpAt("vtor")
    /\ cpu' = [JumpDone("vtor") EXCEPT !.vtor = FW_RAM_BASE]
    /\ UNCHANGED << loopVars, call, tx, rx >>

\* dsb and isb.
JumpBarrier ==
    /\ \E op \in {"dsb", "isb"} :
         /\ JumpAt(op)
         /\ cpu' = JumpDone(op)
    /\ UNCHANGED << loopVars, call, tx, rx >>

\* VectorTable::read_from(layout.ram_base).
JumpReadVectorTable ==
    /\ JumpAt("read_vt")
    /\ cpu' = [JumpDone("read_vt") EXCEPT !.vt = << ram[0], ram[1] >>]
    /\ UNCHANGED << loopVars, call, tx, rx >>

\* msr msp, {sp}.
JumpLoadStackPointer ==
    /\ JumpAt("msr_msp")
    /\ cpu' = [JumpDone("msr_msp") EXCEPT !.msp = cpu.vt[1]]
    /\ UNCHANGED << loopVars, call, tx, rx >>

\* bx {reset}: the core leaves the bootloader.
JumpBranch ==
    /\ JumpAt("bx")
    /\ cpu' = [JumpDone("bx") EXCEPT !.at = "firmware",
                                     !.target = cpu.vt[2]]
    /\ UNCHANGED << loopVars, call, tx, rx >>

\* The words of the images load_and_jump is called for.
ImageWords == {RAM_START, RAM_START + 1, RAM_END - 1}

\* load_and_jump is entered for a bank that validate_bank accepted, with
\* interrupts enabled and the vector table and stack of the bootloader.
JumpInit ==
    /\ state = Standby
    /\ ram = [i \in RamCells |-> 0]
    /\ bootsector = ErasedSector
    /\ events = << >> /\ queue = << >>
    /\ checked = TRUE /\ usb = TRUE /\ transport = FALSE
    /\ pc = "main"
    /\ booted = None
    /\ lastCmd = NoCmd /\ resp = << >> /\ ops = << >>
    /\ call = None /\ tx = None /\ rx = None
    /\ \E bank \in 0 .. 1, sp \in ImageWords, reset \in ImageWords,
          third \in {0, ERASED} :
         /\ flash = [FreshFlash EXCEPT
                       ![addr_to_offset(bank_addr(bank).val)] = sp,
                       ![addr_to_offset(bank_addr(bank).val) + 1] = reset,
                       ![addr_to_offset(bank_addr(bank).val) + 2] = third]
         /\ validate_bank(flash, bank_addr(bank).val) # None
         /\ cpu = [ip |-> 1, irq |-> TRUE, vtor |-> 0, msp |-> RAM_END - 1,
                   at |-> "bootloader", target |-> 0, vt |-> << >>,
                   bank |-> bank, trace |-> << >>]

JumpNext ==
    \/ JumpCopy
    \/ JumpDisableInterrupts
    \/ JumpWriteVtor
    \/ JumpBarrier
    \/ JumpReadVectorTable
    \/ JumpLoadStackPointer
    \/ JumpBranch

JumpSpec == JumpInit /\ [][JumpNext]_vars

\* ------------------------------------------------------------------------
\* flash_erase and flash_program, one ROM call at a time (flash.rs)
\* ------------------------------------------------------------------------
\* The critical section enabling interrupts before it re-enters XIP.
flash_critical_section_early_enable(rom_call) ==
    << "cpsid", "connect", "exit_xip", rom_call, "flush", "cpsie",
       "enter_xip" >>

\* What flash_erase (rom_call = "erase") and flash_program ("program")
\* execute, in program order.
flash_critical_section(rom_call) ==
    << "cpsid", "connect", "exit_xip", rom_call, "flush", "enter_xip",
       "cpsie" >>

MaxFlashCalls == 2

\* The calls made: erases of a sector of either bank or of the metadata
\* sector, programs of a page of either bank.
FlashCalls ==
    { [op |-> "erase", off |-> off, data |-> << >>] :
        off \in { addr_to_offset(FW_A_ADDR), addr_to_offset(FW_B_ADDR),
                  BootSectorOffset } }
    \cup
    { [op |-> "program", off |-> off, data |-> d] :
        off \in { addr_to_offset(FW_A_ADDR),
                  addr_to_offset(FW_B_ADDR) + FLASH_PAGE_SIZE },
        d \in { << RAM_START, RAM_START + 1 >>, << 0, ERASED >> } }

\* The core is about to execute op of the function it is in.
FlashAt(op) ==
    /\ cpu.fn # None
    /\ cpu.ip <= Len(flash_critical_section(cpu.fn.val.op))
    /\ flash_critical_section(cpu.fn.val.op)[cpu.ip] = op

FlashDone(op) ==
    [cpu EXCEPT !.ip = @ + 1, !.trace = Append(@, op)]

\* flash_erase or flash_program is called.
FlashCall ==
    /\ cpu.fn = None
    /\ cpu.calls < MaxFlashCalls
    /\ \E c \in FlashCalls :
         cpu' = [cpu EXCEPT !.fn = Some(c), !.ip = 1, !.trace = << >>,
                            !.calls = @ + 1]
    /\ UNCHANGED << loopVars, call, tx, rx >>

\* cortex_m::interrupt::disable.
FlashDisableInterrupts ==
    /\ FlashAt("cpsid")
    /\ cpu' = [FlashDone("cpsid") EXCEPT !.irq = FALSE]
    /\ UNCHANGED << loopVars, call, tx, rx >>

\* connect_internal_flash.
FlashConnect ==
    /\ FlashAt("connect")
    /\ cpu' = FlashDone("connect")
    /\ UNCHANGED << loopVars, call, tx, rx >>

\* flash_exit_xip: the flash is no longer mapped.
FlashExitXip ==
    /\ FlashAt("exit_xip")
    /\ cpu' = [FlashDone("exit_xip") EXCEPT !.xip = FALSE]
    /\ UNCHANGED << loopVars, call, tx, rx >>

\* flash_range_erase or flash_range_program.
FlashRomCall ==
    /\ \E op \in {"erase", "program"} :
         /\ FlashAt(op)
         /\ cpu' = FlashDone(op)
    /\ \E taken \in BOOLEAN :
         LET c == cpu.fn.val
             out == IF c.op = "erase"
                    THEN flash_erase(Hw, c.off, FLASH_SECTOR_SIZE)
                    ELSE flash_program(Hw, c.off, c.data, taken)
         IN  /\ flash' = out.flash
             /\ bootsector' = out.bootsector
             /\ ops' = ops \o out.ops
    /\ UNCHANGED << state, ram, events, queue, checked, usb, transport, pc,
                    booted, lastCmd, resp, call, tx, rx >>

\* flash_flush_cache.
FlashFlush ==
    /\ FlashAt("flush")
    /\ cpu' = FlashDone("flush")
    /\ UNCHANGED << loopVars, call, tx, rx >>

\* flash_enter_cmd_xip: the flash is mapped again.
FlashEnterXip ==
    /\ FlashAt("enter_xip")
    /\ cpu' = [FlashDone("enter_xip") EXCEPT !.xip = TRUE]
    /\ UNCHANGED << loopVars, call, tx, rx >>

\* cortex_m::interrupt::enable.
FlashEnableInterrupts ==
    /\ FlashAt("cpsie")
    /\ cpu' = [FlashDone("cpsie") EXCEPT !.irq = TRUE]
    /\ UNCHANGED << loopVars, call, tx, rx >>

\* The function returns after the last operation.
FlashReturn ==
    /\ cpu.fn # None
    /\ cpu.ip > Len(flash_critical_section(cpu.fn.val.op))
    /\ cpu' = [cpu EXCEPT !.fn = None, !.last = cpu.fn]
    /\ UNCHANGED << loopVars, call, tx, rx >>

FlashInit ==
    /\ LoopAtRest /\ events = << >>
    /\ call = None /\ tx = None /\ rx = None
    /\ cpu = [fn |-> None, last |-> None, ip |-> 1, irq |-> TRUE,
              xip |-> TRUE, trace |-> << >>, calls |-> 0]

FlashNext ==
    \/ FlashCall
    \/ FlashDisableInterrupts
    \/ FlashConnect
    \/ FlashExitXip
    \/ FlashRomCall
    \/ FlashFlush
    \/ FlashEnterXip
    \/ FlashEnableInterrupts
    \/ FlashReturn

FlashSpec == FlashInit /\ [][FlashNext]_vars

\* ------------------------------------------------------------------------
\* persist_ram_to_flash on its own (update/storage.rs)
\* ------------------------------------------------------------------------
\* Staging buffers as large as a bank, so that every size up to
\* FW_BANK_SIZE can be persisted; no cell holds 0xFF.
StagedBuffers ==
    { [i \in 0 .. (FW_BANK_SIZE - 1) |-> RAM_START + (i % 3)],
      [i \in 0 .. (FW_BANK_SIZE - 1) |-> i + 1] }

PersistInit ==
    /\ state = Ready
    /\ ram \in StagedBuffers
    /\ \/ flash = FreshFlash /\ bootsector = ErasedSector
       \/ flash = UsedFlash /\ bootsector = UsedBootData
    /\ events = << >> /\ queue = << >>
    /\ checked = TRUE /\ usb = FALSE /\ transport = TRUE
    /\ pc = "update"
    /\ booted = None
    /\ lastCmd = NoCmd /\ resp = << >> /\ ops = << >>
    /\ call = None /\ tx = None /\ rx = None /\ cpu = None

\* persist_ram_to_flash(bank_addr, size) for a size the handlers accept.
PersistCall ==
    /\ \E bank \in 0 .. 1, size \in 1 .. FW_BANK_SIZE, fault \in BOOLEAN :
         LET out == persist_ram_to_flash(Hw, ram, bank_addr(bank).val, size,
                                         fault)
         IN  /\ flash' = out.flash
             /\ bootsector' = out.bootsector
             /\ ops' = out.ops
             /\ call' = [op |-> "persist_ram_to_flash", bank |-> bank,
                         size |-> size, fault |-> fault]
    /\ UNCHANGED << state, ram, events, queue, checked, usb, transport, pc,
                    booted, lastCmd, resp, tx, rx, cpu >>

PersistNext == PersistCall

PersistSpec == PersistInit /\ [][PersistNext]_vars

\* ------------------------------------------------------------------------
\* Power loss inside write_boot_data
\* ------------------------------------------------------------------------
\* The flash when the device resets between the flash_erase and the
\* flash_program of write_boot_data, the last flash access of the handler
\* whose complete effect is hw: the sector is erased, the page not written.
InterruptedWrite(hw) ==
    [flash |-> hw.flash,
     bootsector |-> ErasedSector,
     ops |-> SubSeq(hw.ops, 1, Len(hw.ops) - 1)]

\* UpdateService::process dispatching a command whose handler reaches
\* write_boot_data, the device resetting before the page is programmed: no
\* response is sent.
UpdatePumpPowerCut ==
    /\ UNCHANGED unitVars
    /\ pc = "update"
    /\ transition(state, detect_event(events, state)).action
           = "PumpCommandQueue"
    /\ queue # << >>
    /\ transport
    /\ \E fault \in BOOLEAN :
         LET out == dispatch_command(state, ram, Hw, Head(queue), fault)
             n == Len(out.hw.ops)
         IN  /\ n >= 2
             /\ out.hw.ops[n] = FlashOp("program", BootSectorOffset,
                                        FLASH_PAGE_SIZE)
             /\ out.hw.ops[n - 1] = FlashOp("erase", BootSectorOffset,
                                            FLASH_SECTOR_SIZE)
             /\ lastCmd' = Head(queue)
             /\ resp' = << >>
             /\ ram' = out.ram
             /\ flash' = InterruptedWrite(out.hw).flash
             /\ bootsector' = InterruptedWrite(out.hw).bootsector
             /\ ops' = InterruptedWrite(out.hw).ops
             /\ SysReset
    /\ UNCHANGED booted

NextPowerCut == Next \/ UpdatePumpPowerCut

SpecPowerCut == Init /\ [][NextPowerCut]_vars

\* ------------------------------------------------------------------------
\* Properties
\* ------------------------------------------------------------------------
\* The step dispatches a command with tag t (dispatch_command is called by
\* UpdatePumpTick only, which records the command).
Dispatched(t) == pc = "update" /\ lastCmd = NoCmd /\ lastCmd'.tag = t

\* The step dispatches some command.
DispatchedAny == pc = "update" /\ lastCmd = NoCmd /\ lastCmd' # NoCmd

\* read_boot_data() of the current flash.
StoredBootData == read_boot_data(Hw)

BankRecord(bd, bank) ==
    IF bank = 0 THEN << bd.version_a, bd.crc_a, bd.size_a >>
    ELSE << bd.version_b, bd.crc_b, bd.size_b >>

BankAddr(bank) == IF bank = 0 THEN FW_A_ADDR ELSE FW_B_ADDR

\* The session's RAM CRC check, on the state before FinishUpdate.
RamCrcPasses ==
    /\ state.tag = "ReceivingData"
    /\ state.bytes_received = state.expected_size
    /\ Crc(Slice(ram, 0, state.expected_size)) = state.expected_crc

\* The session's flash CRC check, on the flash after FinishUpdate.
FlashCrcPasses ==
    Crc(Slice(flash', addr_to_offset(BankAddr(state.bank)),
              state.expected_size)) = state.expected_crc

TouchesBootSector(op) == op.off + op.len > BootSectorOffset

\* C1: when FinishUpdate answers Ack(CrcError), whether the RAM CRC check or
\* the flash CRC re-check failed, the BootData sector after the command is
\* identical to the sector before it.
C1_CrcErrorKeepsBootData ==
    [][(Dispatched("FinishUpdate") /\ resp' = << Ack("CrcError") >>)
          => bootsector' = bootsector]_vars

\* C1 witness: a FinishUpdate for bank A erased the bank, failed the flash
\* re-check, and the BootData that describes bank A is still there.
C1_FlashCrcErrorReached ==
    /\ lastCmd.tag = "FinishUpdate"
    /\ resp = << Ack("CrcError") >>
    /\ ops # << >>
    /\ is_valid(bootsector) /\ bootsector.size_a # 0
    /\ flash[addr_to_offset(FW_A_ADDR)] = ERASED

\* C2: a session is opened with the StartUpdate arguments and keeps them; if
\* its FinishUpdate answers Ack(Ok), read_boot_data() afterwards has
\* active_bank = bank, confirmed = 0, boot_attempts = 0, the bank's
\* (version, crc, size) equal to the session's, the other bank's unchanged,
\* and the CRC of the bank's flash over [bank_addr, bank_addr+size) is crc32.
C2_CommitComplete ==
    [][/\ (Dispatched("StartUpdate") /\ resp' = << Ack("Ok") >>)
            => /\ state'.tag = "ReceivingData"
               /\ << state'.bank, state'.expected_size, state'.expected_crc,
                     state'.version >>
                  = << lastCmd'.bank, lastCmd'.size, lastCmd'.crc32,
                       lastCmd'.version >>
       /\ (state.tag = "ReceivingData" /\ state'.tag = "ReceivingData")
            => << state'.bank, state'.expected_size, state'.expected_crc,
                  state'.version >>
               = << state.bank, state.expected_size, state.expected_crc,
                    state.version >>
       /\ (Dispatched("FinishUpdate") /\ resp' = << Ack("Ok") >>)
            => /\ state.tag = "ReceivingData"
               /\ is_valid(bootsector')
               /\ StoredBootData'.active_bank = state.bank
               /\ StoredBootData'.confirmed = 0
               /\ StoredBootData'.boot_attempts = 0
               /\ BankRecord(StoredBootData', state.bank)
                  = << state.version, state.expected_crc,
                       state.expected_size >>
               /\ BankRecord(StoredBootData', 1 - state.bank)
                  = BankRecord(StoredBootData, 1 - state.bank)
               /\ FlashCrcPasses]_vars

\* C2 witness: a FinishUpdate for bank B was committed while bank A has a
\* record of its own.
C2_CommittedReached ==
    /\ lastCmd.tag = "FinishUpdate"
    /\ resp = << Ack("Ok") >>
    /\ bootsector.active_bank = 1
    /\ bootsector.size_a # 0 /\ bootsector.size_b # 0

\* C3: a bank's recorded (version, crc, size) changes only in a FinishUpdate
\* for that bank that passed the RAM and the flash CRC check (to the
\* session's values) or in a WipeAll (to zero); and a FinishUpdate touches
\* the BootData sector only when both checks pass, after its last bank
\* erase or program.
C3_RecordsChangeOnlyOnCommit ==
    [][/\ \A b \in {0, 1} :
            BankRecord(StoredBootData', b) # BankRecord(StoredBootData, b)
            => \/ /\ Dispatched("FinishUpdate")
                  /\ RamCrcPasses
                  /\ FlashCrcPasses
                  /\ state.bank = b
                  /\ resp' = << Ack("Ok") >>
                  /\ BankRecord(StoredBootData', b)
                     = << state.version, state.expected_crc,
                          state.expected_size >>
               \/ /\ Dispatched("WipeAll")
                  /\ BankRecord(StoredBootData', b) = << 0, 0, 0 >>
       /\ (/\ Dispatched("FinishUpdate")
           /\ \E i \in 1 .. Len(ops') : TouchesBootSector(ops'[i]))
            => /\ RamCrcPasses
               /\ FlashCrcPasses
               /\ \A i, j \in 1 .. Len(ops') :
                     (TouchesBootSector(ops'[i]) /\ ~TouchesBootSector(ops'[j]))
                     => j < i]_vars

\* C3 witness: SetActiveBank succeeded on a device where both banks have a
\* record.
C3_SetActiveBankKeptRecords ==
    /\ lastCmd.tag = "SetActiveBank"
    /\ resp = << Ack("Ok") >>
    /\ bootsector.version_a # 0 /\ bootsector.version_b # 0
    /\ bootsector.size_a # 0 /\ bootsector.size_b # 0

\* C4: flash is erased or programmed only by a FinishUpdate whose session has
\* bytes_received = expected_size and a RAM buffer CRC equal to expected_crc;
\* StartUpdate, DataBlock and every FinishUpdate that fails before that
\* issue no erase and no program and leave both banks as they were.
C4_FlashUntouchedUntilRamVerified ==
    [][/\ flash' # flash => (Dispatched("FinishUpdate") /\ RamCrcPasses)
       /\ (pc = "update" /\ \E i \in 1 .. Len(ops') : ~TouchesBootSector(ops'[i]))
            => (Dispatched("FinishUpdate") /\ RamCrcPasses)
       /\ (Dispatched("StartUpdate") \/ Dispatched("DataBlock")
           \/ (Dispatched("FinishUpdate") /\ ~RamCrcPasses))
            => (flash' = flash /\ ops' = << >>)]_vars

\* C4 witness: a FinishUpdate failed the RAM CRC check while both banks hold
\* an image; nothing was erased.
C4_RamCrcErrorReached ==
    /\ lastCmd.tag = "FinishUpdate"
    /\ resp = << Ack("CrcError") >>
    /\ ops = << >>
    /\ flash[addr_to_offset(FW_A_ADDR)] # ERASED
    /\ flash[addr_to_offset(FW_B_ADDR)] # ERASED

\* The transition table's empty cells.
Disallowed(st, cmd) ==
    \/ cmd.tag \in {"StartUpdate", "SetActiveBank", "WipeAll"}
       /\ st.tag = "ReceivingData"
    \/ cmd.tag \in {"DataBlock", "FinishUpdate"} /\ st.tag # "ReceivingData"

\* C5: a command the transition table does not allow in the current state is
\* answered Ack(BadState) and changes neither the update state, nor the RAM
\* staging buffer, nor BootData, nor flash; DataBlock and FinishUpdate get
\* the same answer from the handlers in Standby and InitializingUsb.
C5_DisallowedIsBadState ==
    /\ [][(pc = "update" /\ lastCmd' # NoCmd /\ Disallowed(state, lastCmd'))
             => /\ resp' = << Ack("BadState") >>
                /\ state' = state
                /\ ram' = ram
                /\ flash' = flash
                /\ bootsector' = bootsector
                /\ ops' = << >>]_vars
    /\ [](pc = "usb"
            => \A st \in {Standby, InitializingUsb, Ready} :
                 \A cmd \in Commands :
                   Disallowed(st, cmd)
                   => \A fault \in BOOLEAN :
                        dispatch_command(st, ram, Hw, cmd, fault)
                        = Outcome(st, ram, Hw, << Ack("BadState") >>, FALSE))

\* C5 witness: WipeAll was rejected in the middle of an upload, on a device
\* whose BootData has a record to lose.
C5_WipeRejectedWhileReceiving ==
    /\ lastCmd.tag = "WipeAll"
    /\ resp = << Ack("BadState") >>
    /\ state.tag = "ReceivingData" /\ state.bytes_received > 0
    /\ is_valid(bootsector) /\ bootsector.size_a # 0

\* C6: StartUpdate answers Ack(BadState) unless the state is Ready, else
\* Ack(BankInvalid) unless bank is 0 or 1, else Ack(BankInvalid) unless
\* 0 < size <= RAM buffer size and size <= FW_BANK_SIZE, the state being
\* unchanged in the three cases; otherwise it answers Ack(Ok) and the state
\* is ReceivingData of the arguments with bytes_received = 0.
C6_StartUpdateValidation ==
    [][Dispatched("StartUpdate")
          => LET c == lastCmd'
             IN  IF state # Ready
                 THEN resp' = << Ack("BadState") >> /\ state' = state
                 ELSE IF c.bank \notin {0, 1}
                 THEN resp' = << Ack("BankInvalid") >> /\ state' = state
                 ELSE IF ~(c.size > 0 /\ c.size <= FW_COPY_SIZE
                           /\ c.size <= FW_BANK_SIZE)
                 THEN resp' = << Ack("BankInvalid") >> /\ state' = state
                 ELSE /\ resp' = << Ack("Ok") >>
                      /\ state' = ReceivingData(c.bank, BankAddr(c.bank),
                                      c.size, c.crc32, c.version, 0)]_vars

\* C6 witness: a StartUpdate for bank B was accepted.
C6_StartAccepted ==
    /\ lastCmd.tag = "StartUpdate"
    /\ resp = << Ack("Ok") >>
    /\ state = ReceivingData(1, FW_B_ADDR, Len(HostImage), Crc(HostImage),
                             HostVersion, 0)

\* C7: in ReceivingData a DataBlock is accepted iff offset = bytes_received
\* and bytes_received + len <= expected_size; then it answers Ack(Ok), the
\* data lie in staging at the old bytes_received, the other staging cells
\* are unchanged and bytes_received grows by len; otherwise it answers
\* Ack(BadCommand) and neither the state nor the staging buffer changes.
C7_DataBlockSequential ==
    [][(Dispatched("DataBlock") /\ state.tag = "ReceivingData")
          => LET c == lastCmd'
                 n == Len(c.data)
                 at == state.bytes_received
             IN  IF c.offset = at /\ at + n <= state.expected_size
                 THEN /\ resp' = << Ack("Ok") >>
                      /\ state' = [state EXCEPT !.bytes_received = at + n]
                      /\ \A i \in RamCells :
                           ram'[i] = IF at <= i /\ i < at + n
                                     THEN c.data[i - at + 1] ELSE ram[i]
                 ELSE /\ resp' = << Ack("BadCommand") >>
                      /\ state' = state
                      /\ ram' = ram]_vars

\* C7 witness: a DataBlock whose offset leaves a gap was rejected in the
\* middle of an upload.
C7_GapRejected ==
    /\ lastCmd.tag = "DataBlock"
    /\ resp = << Ack("BadCommand") >>
    /\ state.tag = "ReceivingData"
    /\ state.bytes_received > 0
    /\ lastCmd.offset > state.bytes_received

\* C8: in every ReceivingData state bytes_received <= expected_size and
\* 0 < expected_size <= min(RAM buffer size, FW_BANK_SIZE), so the staging
\* cells [0, bytes_received) written so far lie inside [0, expected_size),
\* and bytes_received plus the longest data block does not wrap a word.
C8_ReceivedWithinExpected ==
    state.tag = "ReceivingData"
    => /\ state.bytes_received <= state.expected_size
       /\ 0 < state.expected_size
       /\ state.expected_size <= Min(fw_ram_buffer_size, FW_BANK_SIZE)
       /\ state.expected_size - 1 \in RamCells
       /\ state.bytes_received + MAX_DATA_BLOCK_SIZE < WordMod

\* C8 witness: a DataBlock filled the staging buffer up to expected_size.
C8_BufferFilled ==
    /\ lastCmd.tag = "DataBlock"
    /\ resp = << Ack("Ok") >>
    /\ state.tag = "ReceivingData"
    /\ state.bytes_received = state.expected_size

\* C9: the update state enters ReceivingData only from Ready, by a
\* StartUpdate that passes the validations; it enters Ready from outside
\* update mode only from InitializingUsb, in the step that takes the USB
\* peripheral and stores the transport; Standby goes to Standby or
\* InitializingUsb only.
C9_StateEntries ==
    [][/\ (state'.tag = "ReceivingData" /\ state.tag # "ReceivingData")
            => /\ state = Ready
               /\ Dispatched("StartUpdate")
               /\ lastCmd'.bank \in {0, 1}
               /\ 0 < lastCmd'.size
               /\ lastCmd'.size <= Min(fw_ram_buffer_size, FW_BANK_SIZE)
       /\ (state' = Ready /\ state.tag \notin {"Ready", "ReceivingData"})
            => /\ state = InitializingUsb
               /\ usb /\ ~usb'
               /\ ~transport /\ transport'
       /\ state = Standby => state' \in {Standby, InitializingUsb}
       /\ state.tag \in {"Ready", "ReceivingData"} => transport]_vars

\* C9 witness: an upload is in progress after the boot path found nothing to
\* boot and fell back to update mode.
C9_ReceivingAfterUsbInit ==
    /\ state.tag = "ReceivingData"
    /\ transport /\ ~usb
    /\ checked /\ booted = None

\* C10: FinishUpdate in ReceivingData with bytes_received # expected_size
\* answers Ack(BadCommand) and returns the same ReceivingData state; with
\* bytes_received = expected_size it answers Ack(Ok) or Ack(CrcError) and
\* the state is Ready.
C10_FinishOutcome ==
    [][(Dispatched("FinishUpdate") /\ state.tag = "ReceivingData")
          => IF state.bytes_received # state.expected_size
             THEN resp' = << Ack("BadCommand") >> /\ state' = state
             ELSE /\ resp' \in { << Ack("Ok") >>, << Ack("CrcError") >> }
                  /\ state' = Ready]_vars

\* C10 witness: a FinishUpdate sent before the last block was rejected and
\* the upload is still where it was.
C10_EarlyFinishRejected ==
    /\ lastCmd.tag = "FinishUpdate"
    /\ resp = << Ack("BadCommand") >>
    /\ state.tag = "ReceivingData"
    /\ 0 < state.bytes_received
    /\ state.bytes_received < state.expected_size

\* C11: for every update state and every command, dispatch_command passes
\* exactly one response to transport.send before it returns or resets the
\* MCU: every command the loop dispatches (in Ready or ReceivingData), and
\* every command handed to the handlers in Standby or InitializingUsb.
C11_OneResponsePerCommand ==
    /\ [][DispatchedAny => Len(resp') = 1]_vars
    /\ [](pc = "usb"
            => \A st \in {Standby, InitializingUsb} :
                 \A cmd \in Commands :
                   \A fault \in BOOLEAN :
                     Len(dispatch_command(st, ram, Hw, cmd, fault).resp) = 1)

\* C11 witness: a Reboot was acknowledged once and the MCU has restarted.
C11_RebootAcknowledged ==
    /\ lastCmd.tag = "Reboot"
    /\ resp = << Ack("Ok") >>
    /\ state = Standby /\ pc = "usb" /\ ~checked

\* C12: a decoded command joins the command queue at its tail; the command
\* dispatched is the head of the queue, it is removed and its one response
\* is sent in that same step, so before any later command is popped; the
\* queue shrinks only in the update service's slot of the loop, by one
\* command, and the slot is left after that one command.
C12_DispatchInOrder ==
    [][/\ pc = "usb"
            => \/ queue' = queue
               \/ \E cmd \in Commands : queue' = Append(queue, cmd)
       /\ DispatchedAny
            => /\ queue # << >>
               /\ lastCmd' = Head(queue)
               /\ Len(resp') = 1
               /\ queue' = (IF pc' = "usb" THEN << >> ELSE Tail(queue))
       /\ pc = "update"
            => /\ pc' \in {"led", "usb"}
               /\ Len(queue') >= Len(queue) - 1 \/ pc' = "usb"
       /\ pc \notin {"usb", "update"} => queue' = queue
       /\ resp' # resp
            => \/ DispatchedAny /\ resp = << >>
               \/ pc = "main" /\ resp' = << >>]_vars

\* C12 witness: StartUpdate, then the blocks of the image in order, were
\* dispatched one per iteration; the last block has just been acknowledged.
C12_BlocksDispatchedInOrder ==
    /\ lastCmd.tag = "DataBlock"
    /\ lastCmd.offset > 0
    /\ resp = << Ack("Ok") >>
    /\ state.tag = "ReceivingData"
    /\ state.bytes_received = state.expected_size
    /\ ram = [i \in RamCells |-> HostImage[i + 1]]

\* C13: SetActiveBank{bank} answers Ack(BadState) unless the state is Ready,
\* else Ack(BankInvalid) unless bank is 0 or 1 and the bank's recorded size
\* is non-zero, else Ack(CrcError) unless the CRC over the bank's flash
\* [bank_addr, bank_addr + size) equals the recorded crc, and then the
\* metadata sector is unchanged; otherwise it answers Ack(Ok) and BootData
\* is the old record with active_bank = bank, confirmed = 0 and
\* boot_attempts = 0.  The update state and the banks never change.
C13_SetActiveBankOutcome ==
    [][Dispatched("SetActiveBank")
          => LET b == lastCmd'.bank
                 old == StoredBootData
                 rec == BankRecord(old, b)
             IN  /\ state' = state
                 /\ flash' = flash
                 /\ ram' = ram
                 /\ IF state # Ready
                    THEN /\ resp' = << Ack("BadState") >>
                         /\ bootsector' = bootsector
                    ELSE IF b \notin {0, 1} \/ rec[3] = 0
                    THEN /\ resp' = << Ack("BankInvalid") >>
                         /\ bootsector' = bootsector
                    ELSE IF Crc(Slice(flash, addr_to_offset(BankAddr(b)),
                                      rec[3])) # rec[2]
                    THEN /\ resp' = << Ack("CrcError") >>
                         /\ bootsector' = bootsector
                    ELSE /\ resp' = << Ack("Ok") >>
                         /\ bootsector'
                            = [old EXCEPT !.active_bank = b, !.confirmed = 0,
                                          !.boot_attempts = 0]
                         /\ StoredBootData' = bootsector']_vars

\* C13 witness: SetActiveBank for bank A was refused with Ack(CrcError)
\* because a failed upload left the bank erased under its old record, and
\* active_bank still names bank B.
C13_CrcErrorKeptActiveBank ==
    /\ lastCmd = [tag |-> "SetActiveBank", bank |-> 0]
    /\ resp = << Ack("CrcError") >>
    /\ state = Ready
    /\ bootsector.active_bank = 1
    /\ bootsector.size_a # 0

\* The record with a valid magic and every other field zero.
ZeroRecord == BootData(BOOT_DATA_MAGIC, 0, 0, 0, 0, 0, 0, 0, 0, 0)

\* C14: WipeAll in Ready stores the record with valid magic and every other
\* field zero, answers Ack(Ok), stays in Ready and touches neither bank;
\* while that record is stored GetStatus reports active_bank 0 and versions
\* 0 and SetActiveBank on any bank answers Ack(BankInvalid) and changes
\* nothing; the record is replaced only by a FinishUpdate answered Ack(Ok).
C14_WipeAllResetsBootData ==
    /\ [][(Dispatched("WipeAll") /\ state = Ready)
             => /\ bootsector' = ZeroRecord
                /\ resp' = << Ack("Ok") >>
                /\ state' = Ready
                /\ flash' = flash
                /\ ram' = ram]_vars
    /\ [][(bootsector = ZeroRecord /\ bootsector' # bootsector)
             => (Dispatched("FinishUpdate") /\ resp' = << Ack("Ok") >>)]_vars
    /\ []((pc = "usb" /\ bootsector = ZeroRecord)
            => /\ dispatch_command(Ready, ram, Hw, [tag |-> "GetStatus"],
                                   FALSE).resp
                  = << [tag |-> "Status", active_bank |-> 0, version_a |-> 0,
                        version_b |-> 0, state |-> "UpdateMode"] >>
               /\ \A b \in 0 .. MaxBankArg :
                    dispatch_command(Ready, ram, Hw,
                        [tag |-> "SetActiveBank", bank |-> b], FALSE)
                    = Outcome(Ready, ram, Hw, << Ack("BankInvalid") >>,
                              FALSE))

\* C14 witness: WipeAll succeeded on a device with an image in each bank;
\* the images are still in flash and the record is gone.
C14_WipedWithImagesInFlash ==
    /\ lastCmd.tag = "WipeAll"
    /\ resp = << Ack("Ok") >>
    /\ state = Ready
    /\ bootsector = ZeroRecord
    /\ flash[addr_to_offset(FW_A_ADDR)] # ERASED
    /\ flash[addr_to_offset(FW_B_ADDR)] # ERASED

\* The Status response for the sector `sector` and the update state `st`.
StatusOf(sector, st) ==
    LET bd == IF sector.magic = BOOT_DATA_MAGIC THEN sector ELSE ZeroRecord
    IN  [tag |-> "Status", active_bank |-> bd.active_bank,
         version_a |-> bd.version_a, version_b |-> bd.version_b,
         state |-> IF st.tag = "ReceivingData" THEN "Receiving"
                   ELSE "UpdateMode"]

\* C15: GetStatus is answered in every update state with one Status
\* response carrying active_bank, version_a and version_b of the stored
\* BootData (of the zero record when the magic is invalid) and state
\* Receiving iff the update state is ReceivingData, UpdateMode otherwise;
\* it changes neither the update state (staging progress included), nor
\* the staging RAM, nor BootData, nor flash, and issues no flash operation.
C15_GetStatusReadOnly ==
    /\ [][Dispatched("GetStatus")
             => /\ resp' = << StatusOf(bootsector, state) >>
                /\ state' = state
                /\ ram' = ram
                /\ flash' = flash
                /\ bootsector' = bootsector
                /\ ops' = << >>]_vars
    /\ [](pc = "usb"
            => \A st \in {Standby, InitializingUsb} :
                 dispatch_command(st, ram, Hw, [tag |-> "GetStatus"], FALSE)
                 = Outcome(st, ram, Hw, << StatusOf(bootsector, st) >>,
                           FALSE))

\* C15 witness: GetStatus was answered in the middle of an upload on a
\* device whose metadata sector is erased.
C15_StatusWhileReceiving ==
    /\ lastCmd.tag = "GetStatus"
    /\ state.tag = "ReceivingData" /\ state.bytes_received > 0
    /\ bootsector = ErasedSector
    /\ resp = << [tag |-> "Status", active_bank |-> 0, version_a |-> 0,
                  version_b |-> 0, state |-> "Receiving"] >>

\* Records with a valid magic: every combination of flags, empty and
\* recorded banks, and a record whose other fields are all ones.
ValidRecords ==
    { BootData(BOOT_DATA_MAGIC, ab, cf, at, a[1], b[1], a[2], b[2], a[3],
               b[3]) :
        ab \in {0, 1}, cf \in {0, 1}, at \in {0, 2},
        a \in { << 0, 0, 0 >>, << HostVersion, Crc(HostImage), Len(HostImage) >> },
        b \in { << 0, 0, 0 >>, << ERASED, ERASED, ERASED >> } }

\* Sectors whose magic is not BOOT_DATA_MAGIC.
InvalidSectors ==
    { [bd EXCEPT !.magic = m] :
        bd \in {ErasedSector, UsedBootData},
        m \in {0, BOOT_DATA_MAGIC - 1, BOOT_DATA_MAGIC + 1, ERASED} }

\* A state of the device at power-on (first start, or after a Reboot).
PowerOn == pc = "usb" /\ ~checked

\* C16: whatever the metadata sector holds, write_boot_data(bd) for a
\* record bd with valid magic followed by read_boot_data() returns exactly
\* bd; read_boot_data() on a sector whose magic is not BOOT_DATA_MAGIC (an
\* erased sector among them) returns the record with magic BOOT_DATA_MAGIC
\* and every other field zero; is_valid holds iff magic = BOOT_DATA_MAGIC.
C16_BootDataRoundTrip ==
    PowerOn
    => /\ \A bd \in ValidRecords :
            /\ read_boot_data(write_boot_data(Hw, bd)) = bd
            /\ is_valid(bd)
       /\ \A sector \in InvalidSectors :
            /\ read_boot_data([Hw EXCEPT !.bootsector = sector]) = ZeroRecord
            /\ ~is_valid(sector)
       /\ read_boot_data(Hw)
          = (IF bootsector.magic = BOOT_DATA_MAGIC THEN bootsector
             ELSE ZeroRecord)

\* C16 witness: the record a FinishUpdate for bank B wrote is what the
\* device reads after the Reboot that followed.
C16_RecordReadAfterReboot ==
    /\ PowerOn
    /\ lastCmd.tag = "Reboot"
    /\ read_boot_data(Hw)
       = BootData(BOOT_DATA_MAGIC, 1, 0, 0, HostVersion, HostVersion,
                  Crc(HostImage), Crc(HostImage), Len(HostImage),
                  Len(HostImage))

\* C17: a BootData rewrite is atomic: after any step in which a command is
\* dispatched - the device resetting between the sector erase and the page
\* program of write_boot_data included - read_boot_data() returns either
\* the record stored before the command or the record the command writes.
C17_BootDataRewriteAtomic ==
    [][DispatchedAny
          => \/ StoredBootData' = StoredBootData
             \/ \E fault \in BOOLEAN :
                  StoredBootData'
                  = read_boot_data(
                        dispatch_command(state, ram, Hw, lastCmd', fault).hw)]_vars

\* C17 witness: power was lost inside the write_boot_data of a
\* SetActiveBank; the device restarts with bank A's image in flash and an
\* erased metadata sector, which reads as the zero record.
C17_RecordLostAfterPowerCut ==
    /\ PowerOn
    /\ lastCmd.tag = "SetActiveBank"
    /\ resp = << >>
    /\ bootsector = ErasedSector
    /\ StoredBootData = ZeroRecord
    /\ flash[addr_to_offset(FW_A_ADDR)] # ERASED

\* Words at and around the ends of [RAM_START, RAM_END), zero and all ones.
BoundaryWords ==
    {0, RAM_START - 1, RAM_START, RAM_END - 1, RAM_END, ERASED}

\* C18: validate_bank(addr) is Some((sp, reset)) iff the first word sp and
\* the second word reset at addr both lie in [RAM_START, RAM_END), and the
\* pair is those two words: for the banks as they are in flash, and for
\* every pair of boundary words put at the start of either bank; an erased
\* bank and the words RAM_END yield None.
C18_ValidateBank ==
    PowerOn
    => \A a \in {FW_A_ADDR, FW_B_ADDR} :
         /\ \A sp \in BoundaryWords \cup {flash[addr_to_offset(a)]} :
              \A rv \in BoundaryWords \cup {flash[addr_to_offset(a) + 1]} :
                validate_bank([flash EXCEPT ![addr_to_offset(a)] = sp,
                                            ![addr_to_offset(a) + 1] = rv],
                              a)
                = (IF /\ RAM_START <= sp /\ sp < RAM_END
                      /\ RAM_START <= rv /\ rv < RAM_END
                   THEN Some(<< sp, rv >>)
                   ELSE None)
         /\ validate_bank(FreshFlash, a) = None
         /\ validate_bank([flash EXCEPT ![addr_to_offset(a)] = RAM_END,
                                        ![addr_to_offset(a) + 1] = RAM_END],
                          a) = None

\* C18 witness: the boot path ran on a device whose bank A is erased and
\* whose bank B holds the uploaded image; bank A failed the validation and
\* bank B passed it with the image's first two words.
C18_ErasedRejectedImageAccepted ==
    /\ pc = "jumped"
    /\ booted = Some(1)
    /\ validate_bank(flash, FW_A_ADDR) = None
    /\ flash[addr_to_offset(FW_A_ADDR)] = ERASED
    /\ validate_bank(flash, FW_B_ADDR) = Some(<< HostImage[1], HostImage[2] >>)

\* The first two words of bank b both lie in [RAM_START, RAM_END).
Bootable(b) ==
    /\ RAM_START <= flash[addr_to_offset(BankAddr(b))]
    /\ flash[addr_to_offset(BankAddr(b))] < RAM_END
    /\ RAM_START <= flash[addr_to_offset(BankAddr(b)) + 1]
    /\ flash[addr_to_offset(BankAddr(b)) + 1] < RAM_END

\* The bank tried first: the active bank of a record with valid magic,
\* bank A without one.
FirstBank ==
    IF bootsector.magic = BOOT_DATA_MAGIC /\ bootsector.active_bank = 1
    THEN 1 ELSE 0

\* C19: when the boot request of a power-on without trigger is served, the
\* banks are tried in a fixed order - the preferred bank and then the other
\* when a valid record names one, A then B otherwise - and the first whose
\* vector table validates is loaded, the second only if the first fails;
\* a bank is loaded in no other step, and never one whose vector table
\* fails the validation.
C19_BootOrder ==
    /\ [][(pc = "main" /\ has_event(events, {"RequestBoot"}))
             => IF Bootable(FirstBank)
                THEN pc' = "jumped" /\ booted' = Some(FirstBank)
                ELSE IF Bootable(1 - FirstBank)
                THEN pc' = "jumped" /\ booted' = Some(1 - FirstBank)
                ELSE pc' = "usb" /\ booted' = None]_vars
    /\ [][(booted' # booted \/ (pc' = "jumped" /\ pc # "jumped"))
             => /\ pc = "main" /\ has_event(events, {"RequestBoot"})
                /\ booted = None /\ booted' # None
                /\ Bootable(booted'.val)
                /\ pc' = "jumped"]_vars

\* C19 witness: the record names bank B, both banks validate, and bank B
\* was loaded.
C19_PreferredBankLoaded ==
    /\ pc = "jumped"
    /\ booted = Some(1)
    /\ bootsector.magic = BOOT_DATA_MAGIC /\ bootsector.active_bank = 1
    /\ Bootable(0) /\ Bootable(1)

UpdateMode == state.tag \in {"Ready", "ReceivingData"}

\* The boot engine has returned: the update request of the fallback is
\* pending at the start of an iteration (a request of the trigger is
\* consumed in the iteration that publishes it).
FellBack ==
    /\ pc = "usb"
    /\ checked
    /\ has_event(events, {"RequestUpdate"})

\* UsbTransport::new has failed: the peripheral is taken and there is no
\* transport.
ConstructionFailed == ~usb /\ ~transport

\* C20: when the boot request is served and neither bank validates, the
\* engine returns and RequestUpdate is published in place of RequestBoot;
\* the update service, in Standby, takes the request in its next poll and
\* constructs the transport in the one after, reaching Ready unless the
\* construction fails; nothing but the update service changes its state in
\* between; once in update mode the device leaves it only by a Reboot
\* command and never jumps to a firmware; and under the fairness of the
\* main loop the fallback leads to Ready or to a failed construction.
C20_FallbackReachesReady ==
    /\ [][(pc = "main" /\ has_event(events, {"RequestBoot"})
             /\ ~Bootable(0) /\ ~Bootable(1))
            => /\ pc' = "usb"
               /\ booted' = None
               /\ state' = Standby /\ usb'
               /\ has_event(events', {"RequestUpdate"})
               /\ ~has_event(events', {"RequestBoot"})]_vars
    /\ [][(pc = "update" /\ state = Standby
             /\ has_event(events, {"RequestUpdate"}))
            => state' = InitializingUsb /\ usb' = usb]_vars
    /\ [][(pc = "update" /\ state = InitializingUsb /\ usb)
            => \/ state' = Ready /\ transport'
               \/ state' = Standby /\ ConstructionFailed']_vars
    /\ [][pc # "update"
            => /\ state' = state
               /\ usb' = usb
               /\ (has_event(events, {"RequestUpdate"})
                      => has_event(events', {"RequestUpdate"}))]_vars
    /\ [][(UpdateMode /\ ~UpdateMode') => Dispatched("Reboot")]_vars
    /\ [](UpdateMode => pc # "jumped" /\ transport)
    /\ (FellBack ~> (state = Ready \/ ConstructionFailed))

\* C20 witness: nothing is bootable, the trigger was not asserted, the
\* engine has returned and the update request of the fallback is pending.
C20_FallbackPending ==
    /\ FellBack
    /\ state = Standby /\ usb
    /\ booted = None
    /\ ~Bootable(0) /\ ~Bootable(1)

\* C21: a Reboot command is honoured whenever it is dispatched, in Ready
\* and in ReceivingData alike: the one response is Ack(Ok), the MCU is then
\* reset (the service is back at power-on, in Standby with nothing queued,
\* and no state is returned), no flash erase or program is issued, and the
\* BootData record and both banks are what they were; a staged upload is
\* given up with the ReceivingData state.  The handler does this for every
\* state it is given.
C21_RebootResets ==
    /\ [][Dispatched("Reboot")
            => /\ UpdateMode
               /\ resp' = << Ack("Ok") >>
               /\ ops' = << >>
               /\ flash' = flash
               /\ bootsector' = bootsector
               /\ state' = Standby
               /\ queue' = << >> /\ events' = << >>
               /\ ~checked' /\ ~transport' /\ usb'
               /\ pc' = "usb"]_vars
    /\ [](pc = "usb"
            => \A st \in {Standby, InitializingUsb, Ready, state} :
                 LET out == handle_reboot(st, ram, Hw)
                 IN  /\ out.reset
                     /\ out.resp = << Ack("Ok") >>
                     /\ out.hw = Hw)

\* C21 witness: a Reboot was served with an upload staged in RAM and
\* nothing committed; the device is at power-on with the flash of a fresh
\* device.
C21_RebootDiscardedUpload ==
    /\ lastCmd.tag = "Reboot"
    /\ resp = << Ack("Ok") >>
    /\ ops = << >>
    /\ state = Standby /\ pc = "usb"
    /\ ram # [i \in RamCells |-> 0]
    /\ flash = FreshFlash /\ bootsector = ErasedSector

\* The positions of the stored events a filter does not match.
Kept(bus, filter) == {i \in 1 .. Len(bus) : bus[i] \notin filter}

\* C22: publish appends the event at the tail of the bus, unless the bus
\* already stores 32 events, and then the bus is unchanged and the event is
\* dropped; consume removes every stored event the filter matches and keeps
\* the others in their order, so that the always-true filter empties the
\* bus; has_event tells whether a stored event matches the filter and
\* leaves the bus as it is.
C22_EventBus ==
    /\ [][call'.op = "publish"
            => IF Len(events) >= 32
               THEN events' = events
               ELSE events' = events \o << call'.arg >>]_vars
    /\ [][call'.op = "consume"
            => /\ Len(events') = Cardinality(Kept(events, call'.arg))
               /\ \A i \in Kept(events, call'.arg) :
                    events'[Cardinality({j \in Kept(events, call'.arg) :
                                            j <= i})] = events[i]
               /\ \A i \in 1 .. Len(events') : events'[i] \notin call'.arg
               /\ (call'.arg = Events => events' = << >>)]_vars
    /\ [][call'.op = "has_event"
            => /\ events' = events
               /\ call'.result
                    = ({events[i] : i \in 1 .. Len(events)}
                          \cap call'.arg # {})]_vars
    /\ [](Len(events) <= 32)

\* C22 witness: the bus stores 32 events of both kinds and the event just
\* published is not the one at its tail: it was dropped.
C22_PublishDroppedOnFullBus ==
    /\ Len(events) = 32
    /\ call # None /\ call.op = "publish"
    /\ events[32] # call.arg
    /\ {events[i] : i \in 1 .. Len(events)} = Events

\* What is left of the frame and of the patience of the loop: it decreases
\* at every turn of the loop.
TxRank(t) ==
    IF t.status # "writing" THEN 0
    ELSE (t.len - t.offset) * (MAX_POLLS + 2) + (MAX_POLLS + 1 - t.poll_count)

\* write_all returns false at once on a write error other than WouldBlock,
\* returns true iff every byte of the frame was accepted, and every turn of
\* its loop brings it closer to returning.
WriteAllOutcome ==
    /\ [][tx'.status # "idle" /\ tx'.cause = "Error"
            => /\ tx'.status = "returned" /\ ~tx'.result
               /\ tx'.offset = tx.offset]_vars
    /\ [](tx.status = "returned" => (tx.result <=> tx.offset = tx.len))
    /\ [](tx.status = "writing" => tx.offset < tx.len)
    /\ [][tx.status = "writing" /\ tx' # tx
            => TxRank(tx') < TxRank(tx)]_vars

\* C23: write_all gives up and returns false after at most MAX_POLLS = 100
\* WouldBlock results without progress; it returns false at once on any
\* other write error, returns true iff the endpoint accepted every byte of
\* the frame, and terminates whatever the endpoint does.
C23_WriteAllBounded ==
    /\ [](tx.status = "returned" /\ tx.cause = "WouldBlock"
            => ~tx.result /\ tx.blocked <= 100)
    /\ WriteAllOutcome

\* C23 witness: write_all has returned false on the 101st WouldBlock in a
\* row, after 100 polls.
C23_GaveUpOnBlock101 ==
    /\ tx.status = "returned" /\ ~tx.result
    /\ tx.cause = "WouldBlock"
    /\ tx.blocked = 101
    /\ tx.offset < tx.len

\* s ends with the sequence b.
EndsWith(s, b) ==
    /\ Len(b) <= Len(s)
    /\ b = SubSeq(s, Len(s) - Len(b) + 1, Len(s))

\* C24: whatever the receive side has accumulated, processing a zero byte
\* leaves the accumulator empty (rx_pos = 0), whether the frame decodes,
\* fails to decode or is empty, in try_receive and in the drain alike; a
\* frame that fails to decode yields no command; rx_pos never exceeds
\* RX_BUF_SIZE, and a non-zero byte arriving at a full accumulator empties
\* it; the accumulated bytes are always the last of the non-zero bytes
\* processed since the last zero byte was, so that what is decoded at a
\* delimiter holds no byte of a frame before the previous delimiter.
C24_FramingResynchronises ==
    /\ Len(rx.t.rx_buf) <= RX_BUF_SIZE
    /\ EndsWith(rx.t.since, rx.t.rx_buf)
    /\ process_byte(rx.t, 0).t.rx_buf = << >>
    /\ process_byte(rx.t, 0).t.since = << >>
    /\ process_byte(rx.t, 0).cmd = (IF rx.t.rx_buf = << >> THEN None
                                    ELSE from_bytes_cobs(rx.t.rx_buf))
    /\ (from_bytes_cobs(rx.t.rx_buf) = None
          => /\ process_byte(rx.t, 0).cmd = None
             /\ drain_bytes(rx.t, << 0 >>).pending_cmd = rx.t.pending_cmd)
    /\ (Len(rx.t.rx_buf) < DRAIN_LIMIT
          => drain_bytes(rx.t, << 0 >>).rx_buf = << >>)
    /\ \A byte \in 1 .. 2 :
         /\ process_byte(rx.t, byte).cmd = None
         /\ Len(process_byte(rx.t, byte).t.rx_buf) <= RX_BUF_SIZE
         /\ IF Len(rx.t.rx_buf) = RX_BUF_SIZE
            THEN process_byte(rx.t, byte).t.rx_buf = << >>
            ELSE process_byte(rx.t, byte).t.rx_buf
                     = Append(rx.t.rx_buf, byte)

\* C24 witness: a non-zero byte arrived at the full accumulator, in the
\* middle of a frame, and the accumulator is empty.
C24_OverflowDiscarded ==
    /\ Len(rx.t.since) = RX_BUF_SIZE + 1
    /\ rx.t.rx_buf = << >>

\* The commands try_receive has returned from the pending slot, in order.
DeliveredFromSlot ==
    LET sel == SelectSeq(rx.delivered, LAMBDA d : d.buffered)
    IN  [i \in 1 .. Len(sel) |-> sel[i].cmd]

\* The command waiting in the pending slot, as a sequence.
InSlot ==
    IF rx.t.pending_cmd = None THEN << >> ELSE << rx.t.pending_cmd.val >>

\* C25: every command decoded by the drain of a blocked send is kept in the
\* pending slot until try_receive returns it: the commands the drain has
\* decoded are, in their order, the ones already returned from the slot
\* followed by the one waiting in it, none lost; and a try_receive that
\* finds the slot occupied returns its command without reading anything
\* new.
C25_DrainedCommandsDelivered ==
    /\ [](rx.t.drained = DeliveredFromSlot \o InSlot)
    /\ [][(rx.t.pending_cmd # None /\ rx'.t.pending_cmd = None)
            => /\ rx'.delivered
                    = Append(rx.delivered,
                             [cmd |-> rx.t.pending_cmd.val,
                              buffered |-> TRUE])
               /\ rx'.wire = rx.wire
               /\ rx'.t.rx_buf = rx.t.rx_buf]_vars

\* C25 witness: the drain decoded two commands before any try_receive; the
\* slot holds the second and the first is nowhere.
C25_FirstCommandOverwritten ==
    /\ Len(rx.t.drained) = 2
    /\ rx.t.pending_cmd = Some(rx.t.drained[2])
    /\ rx.delivered = << >>
    /\ rx.wire = << >>
    /\ rx.t.rx_buf = << >>

\* C26: load_and_jump executes, in this order: the copy of copy_size bytes
\* of the bank to ram_base, the disabling of interrupts, the write of
\* ram_base to VTOR, the data and the instruction barrier, the read of
\* initial_sp and reset_vector from the RAM copy, the load of the main
\* stack pointer, the branch.  VTOR, the stack pointer and the position of
\* the core change only with interrupts disabled; interrupts, once
\* disabled, are not enabled again; and the core does nothing of the
\* bootloader after the branch.
C26_LoadAndJumpOrder ==
    /\ [](\E n \in 0 .. 8 :
            cpu.trace = SubSeq(<< "copy", "cpsid", "vtor", "dsb", "isb",
                                  "read_vt", "msr_msp", "bx" >>, 1, n))
    /\ [](Len(cpu.trace) >= 1
            => ram = [i \in RamCells |->
                        flash[addr_to_offset(BankAddr(cpu.bank)) + i]])
    /\ [](Len(cpu.trace) >= 3 => cpu.vtor = FW_RAM_BASE)
    /\ [](Len(cpu.trace) >= 6 => cpu.vt = << ram[0], ram[1] >>)
    /\ [](Len(cpu.trace) >= 7 => cpu.msp = ram[0])
    /\ [](Len(cpu.trace) >= 8 <=> cpu.at = "firmware")
    /\ [](cpu.at = "firmware" => cpu.target = ram[1] /\ ~cpu.irq)
    /\ [][(cpu'.vtor # cpu.vtor \/ cpu'.msp # cpu.msp \/ cpu'.at # cpu.at)
            => ~cpu.irq /\ ~cpu'.irq]_vars
    /\ [][~cpu.irq => ~cpu'.irq]_vars
    /\ [][cpu.at # "firmware"]_vars

\* C26 witness: the core has branched to the reset vector of bank B's
\* image, on its stack, with the vector table in RAM and interrupts
\* disabled.
C26_JumpedToBankB ==
    /\ cpu.at = "firmware"
    /\ cpu.bank = 1
    /\ cpu.target = flash[addr_to_offset(FW_B_ADDR) + 1]
    /\ cpu.msp = flash[addr_to_offset(FW_B_ADDR)]
    /\ cpu.msp # cpu.target
    /\ cpu.vtor = FW_RAM_BASE
    /\ ~cpu.irq

\* The order of one flash critical section around the ROM call op.
CriticalOrder(op) ==
    << "cpsid", "connect", "exit_xip", op, "flush", "enter_xip", "cpsie" >>

\* C27: every flash_erase and every flash_program executes, in this order:
\* disable interrupts, connect, exit XIP, the erase or the program, flush
\* the cache, enter XIP, enable interrupts, and returns only after all of
\* them; XIP is off only while interrupts are disabled, the flash changes
\* only then, interrupts are enabled again only once XIP is back, and
\* outside the two functions XIP is on.
C27_FlashCriticalSection ==
    /\ [](cpu.fn # None
            => \E n \in 0 .. 7 :
                 cpu.trace = SubSeq(CriticalOrder(cpu.fn.val.op), 1, n))
    /\ [](~cpu.xip => ~cpu.irq)
    /\ [](cpu.fn = None => cpu.xip /\ cpu.irq)
    /\ [][(cpu.fn # None /\ cpu'.fn = None)
            => cpu.trace = CriticalOrder(cpu.fn.val.op)]_vars
    /\ [][(~cpu.irq /\ cpu'.irq) => cpu.xip /\ cpu'.xip]_vars
    /\ [][(flash' # flash \/ bootsector' # bootsector \/ ops' # ops)
            => ~cpu.xip /\ ~cpu.irq /\ ~cpu'.xip /\ ~cpu'.irq]_vars

\* C27 witness: a flash_program has returned, bank A holds the page it
\* wrote, XIP is on and interrupts are enabled.
C27_ProgramReturned ==
    /\ cpu.fn = None
    /\ cpu.last # None /\ cpu.last.val.op = "program"
    /\ cpu.trace = CriticalOrder("program")
    /\ flash[addr_to_offset(FW_A_ADDR)] = RAM_START
    /\ cpu.xip /\ cpu.irq

\* n rounded up to a multiple of unit.
RoundUp(n, unit) == ((n + unit - 1) \div unit) * unit

\* C28: for every size from 1 to FW_BANK_SIZE, persist_ram_to_flash first
\* erases RoundUp(size, sector) bytes at the bank's sector-aligned offset;
\* then every call is a program whose offset in the bank and whose length
\* are multiples of the page size, of at most one sector, each starting
\* where the one before ended, from the start of the bank to
\* RoundUp(size, page), inside the erased range; the calls are finitely
\* many; and when the flash takes the writes the bank holds the size bytes
\* of the buffer followed by 0xFF up to the end of the erased range, with
\* nothing else of the RAM buffer.
C28_PersistLayout ==
    [][call'.op = "persist_ram_to_flash"
         => LET size == call'.size
                base == addr_to_offset(BankAddr(call'.bank))
                o == ops'
            IN  /\ base % FLASH_SECTOR_SIZE = 0
                /\ Len(o) >= 2
                /\ Len(o) <= 1 + RoundUp(size, FLASH_PAGE_SIZE)
                                  \div FLASH_PAGE_SIZE
                /\ o[1] = FlashOp("erase", base,
                                  RoundUp(size, FLASH_SECTOR_SIZE))
                /\ \A i \in 2 .. Len(o) :
                     /\ o[i].op = "program"
                     /\ (o[i].off - base) % FLASH_PAGE_SIZE = 0
                     /\ o[i].len % FLASH_PAGE_SIZE = 0
                     /\ o[i].len > 0
                     /\ o[i].len <= FLASH_SECTOR_SIZE
                     /\ o[i].off = (IF i = 2 THEN base
                                    ELSE o[i - 1].off + o[i - 1].len)
                     /\ o[i].off + o[i].len
                            <= base + RoundUp(size, FLASH_SECTOR_SIZE)
                /\ o[Len(o)].off + o[Len(o)].len
                       = base + RoundUp(size, FLASH_PAGE_SIZE)
                /\ (~call'.fault
                      => \A k \in 0 .. (RoundUp(size, FLASH_SECTOR_SIZE) - 1) :
                           flash'[base + k]
                               = (IF k < size THEN ram[k] ELSE ERASED))
                /\ \A k \in size .. (RoundUp(size, FLASH_SECTOR_SIZE) - 1) :
                     flash'[base + k] = ERASED]_vars

\* C28 witness: an image of one sector, one page and one byte was
\* persisted to bank B in two batches and a padded last page.
C28_TwoBatchesAndPaddedPage ==
    /\ call # None /\ call.op = "persist_ram_to_flash"
    /\ call.bank = 1 /\ ~call.fault
    /\ call.size = FLASH_SECTOR_SIZE + FLASH_PAGE_SIZE + 1
    /\ Len(ops) = 4
    /\ ops[2].len = FLASH_SECTOR_SIZE
    /\ ops[3].len = FLASH_PAGE_SIZE
    /\ ops[4].len = FLASH_PAGE_SIZE
    /\ flash[addr_to_offset(FW_B_ADDR) + call.size - 1] = ram[call.size - 1]
    /\ ram[call.size] # ERASED
    /\ flash[addr_to_offset(FW_B_ADDR) + call.size] = ERASED

\* C29: TriggerCheckService acts on its first tick only.  That tick sets
\* checked and appends exactly one event to the bus, RequestUpdate or
\* RequestBoot; which one depends on the trigger alone, RequestUpdate iff
\* the pin reads low or another trigger condition holds, a read error
\* counting as a pin that is not low.  Every later tick leaves the bus and
\* checked as they are, and checked stays set until the MCU is reset, so
\* that the service publishes one event per power cycle.
C29_TriggerFiresOnce ==
    /\ [][(pc = "trigger" /\ ~checked)
            => /\ checked'
               /\ \E e \in {"RequestUpdate", "RequestBoot"} :
                    events' = Append(events, e)]_vars
    /\ [][(pc = "trigger" /\ checked)
            => checked' /\ events' = events]_vars
    /\ [][(~checked /\ checked') => pc = "trigger"]_vars
    /\ [][(checked /\ ~checked') => Dispatched("Reboot")]_vars
    /\ [](\A other \in BOOLEAN :
            /\ trigger_event("low", other) = "RequestUpdate"
            /\ trigger_event("error", other) = trigger_event("high", other)
            /\ trigger_event("high", other)
                  = (IF other THEN "RequestUpdate" ELSE "RequestBoot"))

\* C29 witness: a tick of the service after the first one has just left
\* the bus empty: the update service is already in Ready.
C29_LaterTickPublishedNothing ==
    /\ pc = "update"
    /\ checked
    /\ events = << >>
    /\ state = Ready
    /\ booted = None

\* The number of RequestUpdate events on a bus.
UpdateRequests(bus) ==
    Cardinality({i \in 1 .. Len(bus) : bus[i] = "RequestUpdate"})

\* C30: a tick of UpdateService in Standby that finds a RequestUpdate
\* removes every RequestUpdate from the bus and moves to InitializingUsb,
\* leaving the USB peripheral and the transport alone; without such an
\* event it stays in Standby and leaves the bus alone.  A tick in
\* InitializingUsb takes the peripheral and either stores the transport
\* and moves to Ready, or moves back to Standby (no peripheral, or the
\* construction fails).  A tick in Ready or ReceivingData pops at most one
\* command, the head of the queue, and dispatches it; with an empty queue
\* it changes nothing of the state.  RequestUpdate events leave the bus
\* only in a Standby tick (or with a reset of the MCU).
C30_UpdateServiceSteps ==
    /\ [][(pc = "update" /\ state = Standby
             /\ UpdateRequests(events) > 0)
            => /\ state' = InitializingUsb
               /\ UpdateRequests(events') = 0
               /\ events' = SelectSeq(events,
                                LAMBDA e : e # "RequestUpdate")
               /\ usb' = usb /\ transport' = transport
               /\ queue' = queue]_vars
    /\ [][(pc = "update" /\ state = Standby
             /\ UpdateRequests(events) = 0)
            => /\ state' = Standby /\ events' = events
               /\ usb' = usb /\ transport' = transport]_vars
    /\ [][(pc = "update" /\ state = InitializingUsb)
            => /\ ~usb'
               /\ events' = events
               /\ \/ usb /\ state' = Ready /\ transport'
                  \/ state' = Standby /\ transport' = transport]_vars
    /\ [][(pc = "update" /\ UpdateMode)
            => IF queue = << >>
               THEN /\ state' = state /\ queue' = queue
                    /\ lastCmd' = lastCmd /\ resp' = resp
                    /\ flash' = flash /\ bootsector' = bootsector
               ELSE /\ lastCmd' = Head(queue)
                    /\ \/ queue' = Tail(queue)
                       \/ lastCmd'.tag = "Reboot" /\ queue' = << >>]_vars
    /\ [][UpdateRequests(events') < UpdateRequests(events)
            => \/ pc = "update" /\ state = Standby
               \/ Dispatched("Reboot")]_vars
    /\ [][state' # state => pc = "update"]_vars

\* C30 witness: a tick in ReceivingData with an empty queue has left the
\* session as it was, and nothing was dispatched in this iteration.
C30_IdleTickWhileReceiving ==
    /\ pc = "led"
    /\ state.tag = "ReceivingData"
    /\ state.bytes_received > 0
    /\ queue = << >>
    /\ lastCmd = NoCmd

\* UpdateService::initialize_usb is about to run.
InitializeUsbRuns == pc = "update" /\ state = InitializingUsb

\* C31: within a power cycle the USB peripheral is taken out of the
\* peripherals container at most once and the transport slot is written at
\* most once: every run of initialize_usb finds the peripheral in the
\* container and the slot empty, the peripheral leaves the container only
\* in initialize_usb and is never put back, the slot is written only by
\* the initialize_usb that took the peripheral and that returns Ready, and
\* a stored transport is never cleared (only the reset of a Reboot command
\* starts over); a transport exists only in Ready and ReceivingData, and
\* with no transport UsbTransportService::process enqueues nothing.
C31_TransportStoredOnce ==
    /\ [](transport => ~usb /\ UpdateMode)
    /\ [][InitializeUsbRuns => usb /\ ~transport]_vars
    /\ [][(usb /\ ~usb') => InitializeUsbRuns]_vars
    /\ [][(~usb /\ usb') => Dispatched("Reboot")]_vars
    /\ [][(~transport /\ transport')
            => InitializeUsbRuns /\ usb /\ ~usb' /\ state' = Ready]_vars
    /\ [][(transport /\ ~transport') => Dispatched("Reboot")]_vars
    /\ [][(pc = "usb" /\ ~transport) => queue' = queue]_vars

\* C31 witness: the peripheral was moved into the transport, and commands
\* have been served over it since: an upload is in progress.
C31_TransportInUse ==
    /\ transport /\ ~usb
    /\ state.tag = "ReceivingData" /\ state.bytes_received > 0
    /\ pc = "usb"

\* C32: the event bus never holds more than one event, so no publish finds
\* it full: the trigger publishes onto an empty bus, once; a RequestBoot is
\* on the bus only from the trigger's poll to the boot check of the same
\* iteration, which consumes it and leaves the bus empty before the
\* fallback RequestUpdate is published; a RequestUpdate is on the bus only
\* while the update service is in Standby, whose next poll consumes it.
C32_BusHoldsAtMostOne ==
    /\ [](Len(events) <= 1 /\ Len(events) < BUS_CAPACITY)
    /\ [][(pc = "trigger" /\ events' # events)
            => ~checked /\ events = << >> /\ Len(events') = 1]_vars
    /\ [](has_event(events, {"RequestBoot"})
            => pc \in {"update", "led", "main"})
    /\ [][(pc = "main" /\ has_event(events, {"RequestBoot"}))
            => /\ consume(events, {"RequestBoot"}) = << >>
               /\ events' \in {<< >>, << "RequestUpdate" >>}]_vars
    /\ [](has_event(events, {"RequestUpdate"})
            => state = Standby /\ pc \in {"usb", "trigger", "update"})
    /\ [][pc = "update" => events' = consume(events, {"RequestUpdate"})]_vars

\* C32 witness: the trigger was polled in an earlier iteration and the bus
\* holds the one RequestUpdate the boot check published when the engine
\* returned.
C32_FallbackRequestOnBus ==
    /\ pc = "trigger" /\ checked
    /\ events = << "RequestUpdate" >>
    /\ state = Standby

\* C33: the command queue never holds more than one command and is empty
\* from the update service's poll to the next poll of the transport
\* service, so the push that finds the queue full never happens: the
\* transport service enqueues at most one command per poll, onto an empty
\* queue and only in Ready or ReceivingData, and the update service's poll
\* of the same iteration dispatches that command.
C33_QueueDrainedEachIteration ==
    /\ [](Len(queue) <= 1 /\ Len(queue) < QUEUE_DEPTH - 1)
    /\ [](pc \in {"usb", "led", "main"} => queue = << >>)
    /\ [][(pc = "usb" /\ queue' # queue)
            => /\ queue = << >> /\ Len(queue') = 1
               /\ transport /\ UpdateMode]_vars
    /\ [][(pc = "update" /\ queue # << >>)
            => /\ DispatchedAny
               /\ lastCmd' = Head(queue)
               /\ queue' = << >>]_vars
    /\ [][pc \notin {"usb", "update"} => queue' = queue]_vars

\* C33 witness: a DataBlock enqueued in this iteration has been dispatched
\* by the update service's poll, and the queue is empty again.
C33_EnqueuedAndDispatched ==
    /\ pc = "led"
    /\ lastCmd.tag = "DataBlock"
    /\ resp # << >>
    /\ queue = << >>

\* main invokes the boot engine in this step.
EngineInvoked == pc = "main" /\ has_event(events, {"RequestBoot"})

\* A boot request is pending or can still be published in this power cycle.
BootPossible == ~checked \/ has_event(events, {"RequestBoot"})

\* C34: the boot engine is invoked at most once per power cycle (the
\* invocation consumes the only boot request the cycle can have: a request
\* is published only by the first poll of the trigger, when the trigger is
\* not asserted, and only a Reboot makes one possible again), and only
\* while the update service is in Standby with the USB peripheral unused
\* and no transport; once the update service has left Standby no boot
\* request is pending or possible, so no later iteration jumps to a
\* firmware - nor after the service has come back to Standby; and the
\* update service, once out of Standby, comes back to it only by the reset
\* of a Reboot command or, from InitializingUsb, when the construction of
\* the transport fails, while Ready and ReceivingData are left only by a
\* Reboot command.
C34_BootEngineOnlyBeforeUpdateMode ==
    /\ [][EngineInvoked
            => /\ state = Standby /\ usb /\ ~transport
               /\ checked
               /\ ~BootPossible']_vars
    /\ [][(~has_event(events, {"RequestBoot"})
             /\ has_event(events', {"RequestBoot"}))
            => /\ pc = "trigger" /\ ~checked
               /\ \E read \in Gp2Reads, other \in BOOLEAN :
                    /\ ~check_update_trigger(gp2_is_low(read), other)
                    /\ events' = publish(events, trigger_event(read, other))
          ]_vars
    /\ [][(~BootPossible /\ BootPossible') => Dispatched("Reboot")]_vars
    /\ [](state # Standby => ~BootPossible /\ pc # "jumped")
    /\ [][(pc # "jumped" /\ pc' = "jumped")
            => EngineInvoked /\ booted = None]_vars
    /\ [][(UpdateMode /\ ~UpdateMode') => Dispatched("Reboot")]_vars
    /\ [][(state # Standby /\ state' = Standby)
            => \/ Dispatched("Reboot")
               \/ /\ InitializeUsbRuns
                  /\ ConstructionFailed'
                  /\ ~BootPossible']_vars

\* C34 as stated: update mode is entered when the update service leaves
\* Standby, and the only way out of it is the Reboot command.
C34_UpdateModeLeftOnlyByReboot ==
    /\ [][EngineInvoked
            => /\ state = Standby /\ usb /\ ~transport
               /\ ~BootPossible']_vars
    /\ [](state # Standby => ~BootPossible /\ pc # "jumped")
    /\ [][(state # Standby /\ state' = Standby)
            => Dispatched("Reboot")]_vars

\* C34 witness: the update service left Standby on the fallback request of
\* a device with nothing to boot, the construction of the transport
\* failed, and the service is back in Standby without a Reboot: no boot
\* request is pending or possible, and nothing was dispatched.
C34_BackInStandbyWithoutReboot ==
    /\ pc = "led"
    /\ state = Standby
    /\ ConstructionFailed
    /\ ~BootPossible
    /\ lastCmd = NoCmd /\ booted = None
    /\ flash = FreshFlash

\* The parameters of an upload session.
SessionOf(st) ==
    << st.bank, st.bank_addr, st.expected_size, st.expected_crc, st.version >>

\* C35: while the update service is in ReceivingData, every step keeps the
\* session's bank, bank address, expected size, expected CRC and version
\* and never lowers bytes_received, which only an accepted DataBlock
\* raises; ReceivingData is left only by a FinishUpdate dispatched when
\* bytes_received = expected_size, which goes to Ready, and by a Reboot,
\* which resets; a StartUpdate during an upload is rejected with BadState
\* and changes nothing, so an unfinished upload cannot be aborted or
\* restarted.
C35_SessionFixedUntilFinishOrReboot ==
    /\ [][(state.tag = "ReceivingData" /\ state'.tag = "ReceivingData")
            => /\ SessionOf(state') = SessionOf(state)
               /\ state'.bytes_received >= state.bytes_received
               /\ (state'.bytes_received > state.bytes_received
                      => Dispatched("DataBlock")
                         /\ resp' = << Ack("Ok") >>)]_vars
    /\ [][(state.tag = "ReceivingData" /\ state'.tag # "ReceivingData")
            => \/ /\ Dispatched("FinishUpdate")
                  /\ state.bytes_received = state.expected_size
                  /\ state' = Ready
               \/ /\ Dispatched("Reboot")
                  /\ state' = Standby]_vars
    /\ [][(state.tag = "ReceivingData" /\ Dispatched("StartUpdate"))
            => /\ state' = state
               /\ resp' = << Ack("BadState") >>
               /\ ram' = ram /\ flash' = flash
               /\ bootsector' = bootsector]_vars

\* C35 witness: a StartUpdate for the other bank was dispatched in the
\* middle of an upload to bank A and rejected; the session goes on.
C35_RestartRejectedMidUpload ==
    /\ lastCmd.tag = "StartUpdate" /\ lastCmd.bank = 1
    /\ resp = << Ack("BadState") >>
    /\ state.tag = "ReceivingData" /\ state.bank = 0
    /\ 0 < state.bytes_received
    /\ state.bytes_received < state.expected_size

\* The bytes of s before its first delimiter.
RECURSIVE UpToDelimiter(_)
UpToDelimiter(s) ==
    IF s = << >> \/ Head(s) = 0 THEN << >>
    ELSE << Head(s) >> \o UpToDelimiter(Tail(s))

\* try_receive has just returned a command decoded from the bytes it read,
\* with bytes of a second frame behind that command's delimiter.
ReturnedWithBytesBehind ==
    /\ call # None /\ call.op = "try_receive"
    /\ call.result # None
    /\ call.read # << >>
    /\ UpToDelimiter(call.rest) # << >>

\* C36: try_receive loses no byte it has read: when a read holds a frame
\* that decodes and then bytes of a second frame, the bytes behind the
\* first frame's delimiter are in the RX accumulator when try_receive
\* returns the first command - or, when the second frame is whole, its
\* command is held in the pending slot - so that a later try_receive
\* returns the second command.
C36_TryReceiveKeepsBytes ==
    ReturnedWithBytesBehind
        => IF Len(UpToDelimiter(call.rest)) = Len(call.rest)
           THEN rx.t.rx_buf = call.rest
           ELSE \/ rx.t.rx_buf = call.rest
                \/ /\ from_bytes_cobs(UpToDelimiter(call.rest)) # None
                   /\ rx.t.pending_cmd
                          = from_bytes_cobs(UpToDelimiter(call.rest))

\* C36 witness: one read held the GetStatus frame, its delimiter and the
\* one byte of the FinishUpdate frame; try_receive returned GetStatus, the
\* accumulator is empty, and the delimiter left on the wire ends an empty
\* frame: FinishUpdate is never returned.
C36_SecondFrameLost ==
    /\ call # None /\ call.op = "try_receive"
    /\ call.read = << 1, 0, 2 >>
    /\ call.result = Some([tag |-> "GetStatus"])
    /\ call.rest = << 2 >>
    /\ rx.t.rx_buf = << >> /\ rx.t.pending_cmd = None
    /\ rx.wire = << 0 >>
    /\ rx.delivered = << [cmd |-> [tag |-> "GetStatus"], buffered |-> FALSE] >>

\* The record BootData holds for a bank describes what the bank's flash
\* holds: the CRC-32 of the recorded size from the bank's start is the
\* recorded CRC.
RecordMatchesFlash(bank) ==
    LET rec == BankRecord(StoredBootData, bank)
    IN  compute_crc32(Hw, BankAddr(bank), rec[3]) = rec[2]

\* C37: in every reachable state, every bank whose recorded size in
\* BootData is not zero holds in flash, over [bank_addr, bank_addr+size),
\* contents whose CRC-32 is the recorded CRC - also after a FinishUpdate
\* whose flash re-verification failed and answered Ack(CrcError).
C37_RecordsDescribeFlash ==
    \A bank \in {0, 1} :
        BankRecord(StoredBootData, bank)[3] # 0 => RecordMatchesFlash(bank)

\* C37 witness: bank A held the confirmed, active image; a FinishUpdate to
\* bank A whose re-verification failed was answered Ack(CrcError); BootData
\* still records the old image as bank A's and as active, and the bank no
\* longer holds it.
C37_RecordOfOverwrittenImage ==
    /\ lastCmd.tag = "FinishUpdate"
    /\ resp = << Ack("CrcError") >>
    /\ StoredBootData = UsedBootData
    /\ StoredBootData.active_bank = 0
    /\ ~RecordMatchesFlash(0)
    /\ \E i \in 0 .. Len(HostImage) - 1 :
         flash[addr_to_offset(FW_A_ADDR) + i] # UsedFlash[addr_to_offset(FW_A_ADDR) + i]

\* C38: what a dispatched command does is independent of whether its
\* response could be sent: the state returned by dispatch_command, the
\* staging RAM, the flash and the BootData sector after the step are those
\* of the run in which transport.send succeeded and of the run in which it
\* failed alike (the same state, command and flash behaviour); an accepted
\* StartUpdate enters ReceivingData and a FinishUpdate that passes both CRC
\* checks commits BootData and returns Ready whatever became of the Ack.
C38_EffectsIndependentOfSend ==
    /\ [][DispatchedAny
            => \E fault \in BOOLEAN :
                 \A sent \in BOOLEAN :
                   LET out == send_ack(state,
                                       dispatch_command(state, ram, Hw,
                                                        lastCmd', fault),
                                       sent)
                   IN  /\ flash' = out.hw.flash
                       /\ bootsector' = out.hw.bootsector
                       /\ ram' = out.ram
                       /\ resp' = out.resp
                       /\ state' = (IF out.reset THEN Standby
                                    ELSE out.state)]_vars
    /\ [][(Dispatched("StartUpdate") /\ resp' = << Ack("Ok") >>)
            => /\ state'.tag = "ReceivingData"
               /\ state'.bank = lastCmd'.bank
               /\ state'.bytes_received = 0]_vars
    /\ [][(Dispatched("FinishUpdate") /\ RamCrcPasses /\ FlashCrcPasses)
            => /\ state' = Ready
               /\ StoredBootData'
                    = CommittedBootData(StoredBootData, state.bank,
                                        state.version, state.expected_crc,
                                        state.expected_size)]_vars

\* C38 witness: a FinishUpdate to bank B has committed: the state reached
\* by the run whose Ack(Ok) was sent and by the run whose Ack(Ok) was
\* dropped.
C38_CommittedWhateverTheAck ==
    /\ lastCmd.tag = "FinishUpdate"
    /\ resp = << Ack("Ok") >>
    /\ state = Ready /\ pc = "led"
    /\ StoredBootData.active_bank = 1
    /\ StoredBootData.size_b = Len(HostImage)
    /\ RecordMatchesFlash(1)

\* The erase or program call op lies within [off, off + len).
InRegion(op, off, len) == off <= op.off /\ op.off + op.len <= off + len

\* The flash cells of a bank.
BankCells(bank) ==
    addr_to_offset(BankAddr(bank))
        .. (addr_to_offset(BankAddr(bank)) + FW_BANK_SIZE - 1)

\* C39: every erase and program call a command issues lies inside the
\* command's target region: those of a FinishUpdate inside the session's
\* bank, [bank_addr, bank_addr + FW_BANK_SIZE), or, when it answers
\* Ack(Ok), inside the BootData sector; those of SetActiveBank and WipeAll
\* inside the BootData sector; the other commands issue none.  Cell by
\* cell: a flash cell changes only in a FinishUpdate and only inside the
\* session's bank, the BootData sector changes only in a FinishUpdate that
\* answers Ack(Ok), a SetActiveBank or a WipeAll, and the other bank and
\* the bootloader's own flash never change.
C39_WritesStayInTargetRegion ==
    /\ [][DispatchedAny
            => /\ \A i \in 1 .. Len(ops') :
                    \/ /\ lastCmd'.tag = "FinishUpdate"
                       /\ state.tag = "ReceivingData"
                       /\ InRegion(ops'[i],
                                   addr_to_offset(BankAddr(state.bank)),
                                   FW_BANK_SIZE)
                    \/ /\ lastCmd'.tag = "FinishUpdate"
                       /\ resp' = << Ack("Ok") >>
                       /\ InRegion(ops'[i], BootSectorOffset,
                                   FLASH_SECTOR_SIZE)
                    \/ /\ lastCmd'.tag \in {"SetActiveBank", "WipeAll"}
                       /\ InRegion(ops'[i], BootSectorOffset,
                                   FLASH_SECTOR_SIZE)
               /\ \A c \in FlashCells :
                    flash'[c] # flash[c]
                        => /\ lastCmd'.tag = "FinishUpdate"
                           /\ state.tag = "ReceivingData"
                           /\ c \in BankCells(state.bank)
               /\ bootsector' # bootsector
                    => \/ /\ lastCmd'.tag = "FinishUpdate"
                          /\ resp' = << Ack("Ok") >>
                       \/ lastCmd'.tag \in {"SetActiveBank", "WipeAll"}
          ]_vars
    /\ [][~DispatchedAny
            => flash' = flash /\ bootsector' = bootsector]_vars
    /\ [][\A c \in 0 .. (addr_to_offset(FW_A_ADDR) - 1) :
             flash'[c] = flash[c]]_vars

\* C39 witness: a FinishUpdate to bank B has erased and programmed bank B
\* and rewritten the BootData sector; bank A and the bootloader's flash
\* hold what the device was powered on with.
C39_BankBWrittenBankAKept ==
    /\ lastCmd.tag = "FinishUpdate"
    /\ resp = << Ack("Ok") >>
    /\ Len(ops) > 3
    /\ ops[1].op = "erase" /\ ops[1].off = addr_to_offset(FW_B_ADDR)
    /\ ops[Len(ops) - 1].op = "erase"
    /\ ops[Len(ops) - 1].off = BootSectorOffset
    /\ \A c \in FlashCells \ BankCells(1) : flash[c] = UsedFlash[c]
    /\ \E c \in BankCells(1) : flash[c] # UsedFlash[c]

\* The first bank, A before B, whose vector table validates.
FirstValidBank(fl) ==
    IF validate_bank(fl, FW_A_ADDR) # None THEN Some(0)
    ELSE IF validate_bank(fl, FW_B_ADDR) # None THEN Some(1)
    ELSE None

\* C40: an accepted WipeAll issues one erase and one program, both inside
\* the BootData sector, and changes no flash cell of either bank: the
\* stored record becomes the default one, with both recorded sizes zero,
\* and validate_bank returns for each bank what it returned before.  So
\* the boot path, if it had a bank to load before the wipe, still has one
\* at the next power-on: it loads the first bank, A before B, that
\* validates.  That is the bank it would have loaded before the wipe,
\* except when both banks validate and bank B is the active one: the
\* default record makes bank A the active bank, and the boot path, which
\* would have loaded bank B, loads bank A.
C40_WipeAllKeepsBanksBootable ==
    [][(Dispatched("WipeAll") /\ resp' = << Ack("Ok") >>)
         => /\ flash' = flash
            /\ Len(ops') = 2
            /\ ops'[1] = FlashOp("erase", BootSectorOffset, FLASH_SECTOR_SIZE)
            /\ ops'[2] = FlashOp("program", BootSectorOffset, FLASH_PAGE_SIZE)
            /\ StoredBootData' = default_new
            /\ StoredBootData'.size_a = 0 /\ StoredBootData'.size_b = 0
            /\ \A b \in {0, 1} :
                 validate_bank(flash', BankAddr(b))
                     = validate_bank(flash, BankAddr(b))
            /\ LET before == run_normal_boot(flash, bootsector)
                   after == run_normal_boot(flash', bootsector')
               IN  /\ before # None => after # None
                   /\ after = FirstValidBank(flash)
                   /\ after # before
                        <=> /\ preferred_bank(bootsector) = Some(1)
                            /\ validate_bank(flash, FW_A_ADDR) # None
                            /\ validate_bank(flash, FW_B_ADDR) # None
                   /\ after # before
                        => before = Some(1) /\ after = Some(0)
       ]_vars

\* C40 as stated: an accepted WipeAll leaves both banks' flash unchanged,
\* and a bank whose vector table validated before the wipe and which the
\* boot path selected still validates and is still the bank the boot path
\* selects at the next power-on.
C40_WipeAllKeepsSelection ==
    [][(Dispatched("WipeAll") /\ resp' = << Ack("Ok") >>)
         => /\ flash' = flash
            /\ \A b \in {0, 1} :
                 (/\ validate_bank(flash, BankAddr(b)) # None
                  /\ run_normal_boot(flash, bootsector) = Some(b))
                   => /\ validate_bank(flash', BankAddr(b)) # None
                      /\ run_normal_boot(flash', bootsector') = Some(b)
       ]_vars

\* C40 witness: an image was committed to bank B of a device whose bank A
\* held one, the device was wiped and reset, the trigger was not asserted,
\* and the boot path has loaded bank A: both banks still validate, and the
\* record gives both the size zero and makes bank A the active one.
C40_BootedBankAAfterWipe ==
    /\ pc = "jumped" /\ booted = Some(0)
    /\ bootsector = default_new
    /\ bootsector.size_a = 0 /\ bootsector.size_b = 0
    /\ validate_bank(flash, FW_A_ADDR) # None
    /\ validate_bank(flash, FW_B_ADDR) # None
    /\ ram = copy_firmware_to_ram(flash, FW_A_ADDR)

====
